---- MODULE Spec2Model ----
(***************************************************************************)
(* Energy-aware scheduling engine: the Job & Asset Registry (job_agent.py,  *)
(* models.py) and the Window Optimizer (energy_agent.py).                   *)
(*                                                                          *)
(* Time is a discrete grid of ticks; datetimes and durations are whole      *)
(* numbers of ticks, so datetime +/- timedelta arithmetic is exact.         *)
(* An Optional value is a sequence of length at most one.                   *)
(***************************************************************************)
EXTENDS Integers, Sequences, FiniteSets, TLC

VARIABLES assets, jobs, now, last, forecast, query, windows,
          clock, cache, req, threads, seen, batch, log, slots

regVars == <<assets, jobs, now, last>>
optVars == <<forecast, query, windows>>
netVars == <<clock, cache, req>>
conVars == <<threads, seen>>
schedVars == <<batch, log, slots>>
extVars == <<clock, cache, req, threads, seen, batch, log, slots>>
vars == <<assets, jobs, now, last, forecast, query, windows,
          clock, cache, req, threads, seen, batch, log, slots>>

None == <<>>
Some(v) == <<v>>

Put(f, k, v) == [x \in DOMAIN f \cup {k} |-> IF x = k THEN v ELSE f[x]]
Drop(f, k) == [x \in DOMAIN f \ {k} |-> f[x]]

\* ---------------------------------------------------------------- bounds
MaxTime == 2
MaxDur == 2
MaxSignals == 2

Times == 0..MaxTime
Durations == 0..MaxDur

\* ------------------------------------------------------------- enumerations
Regions == {"london", "scotland"}

PENDING == "pending"
SCHEDULED == "scheduled"
RUNNING == "running"
PAUSED == "paused"
COMPLETED == "completed"
FAILED == "failed"
CANCELLED == "cancelled"
JobStatus == {PENDING, SCHEDULED, RUNNING, PAUSED, COMPLETED, FAILED, CANCELLED}

\* The members of JobStatus in the order of the class body, which is the
\* order `for status in JobStatus` takes them in.
StatusOrder == << PENDING, SCHEDULED, RUNNING, PAUSED, COMPLETED, FAILED, CANCELLED >>

Priority == {"critical", "high", "normal", "low"}

FIXED == "fixed"
DEFERRABLE == "deferrable"

\* ------------------------------------------------------------------ inputs
AssetIds == {"a1", "a2"}
JobIds == {"j1"}

\* ComputeAsset values offered to register_asset ("a2" is never registered).
AssetInputs == [asset_id : {"a1"}, region : Regions]

\* JobSubmission constructor arguments (the request data of create_job).
SubmissionInputs ==
    [job_id : {None} \cup {Some(j) : j \in JobIds},
     asset_id : AssetIds,
     duration_hours : Durations,
     earliest_start : Times,
     latest_finish : Times,
     allowed_regions : {{"london"}, {"london", "scotland"}},
     estimated_power_kw : {1}]

\* Schedule values offered to attach_schedule: any region, any non-empty
\* interval of the time grid. Savings are in hundredths of a kg and of a
\* pound, reductions in tenths of a percent.
ScheduleInputs ==
    {s \in [region : Regions, start_time : Times, end_time : Times,
            carbon_saved_kg : {240}, cost_saved_gbp : {40},
            carbon_reduction_percent : {300}, cost_reduction_percent : {100}] :
        s.start_time < s.end_time}

\* ------------------------------------------------- models.py: JobSubmission
\* Field constraints and the two validators of latest_finish. A validator
\* sees in `values` only the fields that validated; the second validator of
\* a field does not run once the first has raised.
ErrDuration == "duration_hours: greater than 0"
ErrAfter == "latest_finish must be after earliest_start"
ErrTooSmall == "Time window too small for job duration"
ErrRegions == "allowed_regions: at least 1 item"
ErrPower == "estimated_power_kw: greater than 0"

validate_time_window(v, earliest_start) == v > earliest_start

validate_duration_fits_Skipped(v, earliest_start, duration_hours) == TRUE

validate_duration_fits(v, earliest_start, duration_hours) ==
    ~(v < earliest_start + duration_hours)

JobSubmissionErrors(d) ==
    LET durOk == d.duration_hours > 0
        afterOk == validate_time_window(d.latest_finish, d.earliest_start)
    IN  (IF durOk THEN {} ELSE {ErrDuration})
        \cup (IF afterOk THEN {} ELSE {ErrAfter})
        \cup (IF afterOk /\ durOk
                 /\ ~validate_duration_fits(d.latest_finish, d.earliest_start,
                                            d.duration_hours)
              THEN {ErrTooSmall} ELSE {})
        \cup (IF Cardinality(d.allowed_regions) >= 1 THEN {} ELSE {ErrRegions})
        \cup (IF d.estimated_power_kw > 0 THEN {} ELSE {ErrPower})

\* ----------------------------------------------------------- models.py: Job
calculate_max_deferral_Unsubtracted(job) ==
    [job EXCEPT !.max_deferral_hours =
        Some(job.latest_finish - job.earliest_start)]

calculate_max_deferral(job) ==
    [job EXCEPT !.max_deferral_hours =
        Some((job.latest_finish - job.earliest_start) - job.duration_hours)]

\* ------------------------------------------------------ job_agent.py: JobAgent
\* Outcome of _validate_time_window: "ok" or the ValueError it raises.
ValidateTimeWindow(submission) ==
    IF submission.latest_finish <= submission.earliest_start
    THEN "InvalidWindow"
    ELSE IF (submission.latest_finish - submission.earliest_start)
                < submission.duration_hours
         THEN "InvalidWindow"
         ELSE "ok"

\* The tight-deadline warning of _validate_time_window: window < 1.5 * duration.
TightDeadline(submission) ==
    2 * (submission.latest_finish - submission.earliest_start)
        < 3 * submission.duration_hours

NewJob(job_id, submission) ==
    [job_id |-> job_id,
     asset_id |-> submission.asset_id,
     duration_hours |-> submission.duration_hours,
     earliest_start |-> submission.earliest_start,
     latest_finish |-> submission.latest_finish,
     allowed_regions |-> submission.allowed_regions,
     estimated_power_kw |-> submission.estimated_power_kw,
     flexibility_type |-> IF "flexibility_type" \in DOMAIN submission
                          THEN submission.flexibility_type ELSE DEFERRABLE,
     priority |-> IF "priority" \in DOMAIN submission
                  THEN submission.priority ELSE "normal",
     status |-> PENDING,
     schedule |-> None,
     submitted_at |-> Some(now),
     scheduled_at |-> None,
     started_at |-> None,
     completed_at |-> None,
     max_deferral_hours |-> None]

\* What the caller of the last operation passed and got back: the arguments,
\* the value returned or the exception raised (with the validation errors
\* pydantic reports), and the id of the job the call stored.
Outcome(op, arg, result, detail, job_id) ==
    [op |-> op, arg |-> arg, result |-> result, detail |-> detail,
     job_id |-> job_id]

get_asset_Defaulting(asset_id) ==
    IF asset_id \in DOMAIN assets
    THEN Some(assets[asset_id])
    ELSE Some([asset_id |-> asset_id, region |-> "london"])

get_asset(asset_id) ==
    IF asset_id \in DOMAIN assets THEN Some(assets[asset_id]) ELSE None

get_job(job_id) ==
    IF job_id \in DOMAIN jobs THEN Some(jobs[job_id]) ELSE None

RegisterAsset(asset) ==
    /\ assets' = Put(assets, asset.asset_id, asset)
    /\ last' = Outcome("register_asset", [asset |-> asset], "ok", {}, None)
    /\ UNCHANGED <<jobs, now>>
    /\ UNCHANGED <<optVars, extVars>>

\* ComputeAsset(**data): max_power_kw and min_power_kw are plain floats with
\* no bound and no validator; min_power_kw is 0 when the data has none.
ComputeAsset(data) ==
    [asset_id |-> data.asset_id,
     region |-> data.region,
     max_power_kw |-> data.max_power_kw,
     min_power_kw |-> IF data.min_power_kw = None THEN 0 ELSE data.min_power_kw[1]]

\* create_asset: ComputeAsset(**data), then job_agent.register_asset(asset).
CreateAsset(data) == RegisterAsset(ComputeAsset(data))

\* `submission.job_id or uuid`: None and the empty string are both falsy.
HasJobId(d) == d.job_id # None /\ d.job_id # Some("")

\* The ids uuid4 may yield: any id not stored yet (unused when the submission
\* carries an id).
UuidChoices(d) == IF HasJobId(d) THEN {d.job_id[1]} ELSE JobIds \ DOMAIN jobs

\* create_job: JobSubmission(**data), then job_agent.submit_job(submission).
\* uuid is the id uuid4 yields when the submission carries none.
SubmitJob(d, uuid) ==
    LET job_id == IF HasJobId(d) THEN d.job_id[1] ELSE uuid
        errors == JobSubmissionErrors(d)
        arg == [submission |-> d]
    IN  /\ UNCHANGED <<assets, now>>
        /\ UNCHANGED <<optVars, extVars>>
        /\ IF errors # {}
           THEN /\ last' = Outcome("submit_job", arg, "ValidationError", errors, None)
                /\ jobs' = jobs
           ELSE IF get_asset(d.asset_id) = None
           THEN /\ last' = Outcome("submit_job", arg, "AssetNotFound", {}, None)
                /\ jobs' = jobs
           ELSE IF ValidateTimeWindow(d) # "ok"
           THEN /\ last' = Outcome("submit_job", arg, ValidateTimeWindow(d), {}, None)
                /\ jobs' = jobs
           ELSE /\ jobs' = Put(jobs, job_id, calculate_max_deferral(NewJob(job_id, d)))
                /\ last' = Outcome("submit_job", arg, "ok", {}, Some(job_id))

\* update_job_status with the started_at branch taken for PAUSED as well.
UpdateJobStatus_PausedRestarts(job_id, new_status) ==
    LET arg == [job_id |-> job_id, new_status |-> new_status]
    IN  /\ UNCHANGED <<assets, now>>
        /\ UNCHANGED <<optVars, extVars>>
        /\ IF get_job(job_id) = None
           THEN /\ last' = Outcome("update_job_status", arg, "JobNotFound", {}, None)
                /\ jobs' = jobs
           ELSE LET job == jobs[job_id]
                    j1 == [job EXCEPT !.status = new_status]
                    j2 == IF new_status = SCHEDULED
                          THEN [j1 EXCEPT !.scheduled_at = Some(now)]
                          ELSE IF new_status \in {RUNNING, PAUSED}
                          THEN [j1 EXCEPT !.started_at = Some(now)]
                          ELSE IF new_status \in {COMPLETED, FAILED, CANCELLED}
                          THEN [j1 EXCEPT !.completed_at = Some(now)]
                          ELSE j1
                IN  /\ jobs' = [jobs EXCEPT ![job_id] = j2]
                    /\ last' = Outcome("update_job_status", arg, "ok", {}, None)

UpdateJobStatus(job_id, new_status) ==
    LET arg == [job_id |-> job_id, new_status |-> new_status]
    IN  /\ UNCHANGED <<assets, now>>
        /\ UNCHANGED <<optVars, extVars>>
        /\ IF get_job(job_id) = None
           THEN /\ last' = Outcome("update_job_status", arg, "JobNotFound", {}, None)
                /\ jobs' = jobs
           ELSE LET job == jobs[job_id]
                    j1 == [job EXCEPT !.status = new_status]
                    j2 == IF new_status = SCHEDULED
                          THEN [j1 EXCEPT !.scheduled_at = Some(now)]
                          ELSE IF new_status = RUNNING
                          THEN [j1 EXCEPT !.started_at = Some(now)]
                          ELSE IF new_status \in {COMPLETED, FAILED, CANCELLED}
                          THEN [j1 EXCEPT !.completed_at = Some(now)]
                          ELSE j1
                IN  /\ jobs' = [jobs EXCEPT ![job_id] = j2]
                    /\ last' = Outcome("update_job_status", arg, "ok", {}, None)

AttachSchedule(job_id, schedule) ==
    LET arg == [job_id |-> job_id, schedule |-> schedule]
    IN  /\ UNCHANGED <<assets, now>>
        /\ UNCHANGED <<optVars, extVars>>
        /\ IF get_job(job_id) = None
           THEN /\ last' = Outcome("attach_schedule", arg, "JobNotFound", {}, None)
                /\ jobs' = jobs
           ELSE /\ jobs' = [jobs EXCEPT ![job_id] =
                              [@ EXCEPT !.schedule = Some(schedule),
                                        !.status = SCHEDULED,
                                        !.scheduled_at = Some(now)]]
                /\ last' = Outcome("attach_schedule", arg, "ok", {}, None)

DeleteJob(job_id) ==
    LET arg == [job_id |-> job_id]
    IN  /\ UNCHANGED <<assets, now>>
        /\ UNCHANGED <<optVars, extVars>>
        /\ IF job_id \in DOMAIN jobs
           THEN /\ jobs' = Drop(jobs, job_id)
                /\ last' = Outcome("delete_job", arg, "True", {}, None)
           ELSE /\ jobs' = jobs
                /\ last' = Outcome("delete_job", arg, "False", {}, None)

\* --------------------------------------------- job_agent.py: read operations
\* Lists are given as the set of their elements (the order of a list is the
\* insertion order of the dict, which no claim here depends on).
list_assets(region) ==
    {assets[a] : a \in {x \in DOMAIN assets : region = None \/ assets[x].region = region[1]}}

list_jobs(status, region) ==
    {jobs[j] : j \in {x \in DOMAIN jobs :
                        /\ status = None \/ jobs[x].status = status[1]
                        /\ region = None \/ region[1] \in jobs[x].allowed_regions}}

get_pending_jobs_All == list_jobs(None, None)

get_pending_jobs == list_jobs(Some(PENDING), None)

\* sum(... for j in S) with the summand chosen by name: the energy or the
\* deferral of a job, or a field of its schedule.
EnergyOf(j) == j.estimated_power_kw * j.duration_hours
DeferralOf(j) == IF j.max_deferral_hours = None THEN 0 ELSE j.max_deferral_hours[1]

RECURSIVE SumJobs(_, _)
SumJobs(S, what) ==
    IF S = {} THEN 0
    ELSE LET j == CHOOSE x \in S : TRUE
         IN  (IF what = "energy" THEN EnergyOf(j)
              ELSE IF what = "deferral" THEN DeferralOf(j)
              ELSE j.schedule[1][what])
                + SumJobs(S \ {j}, what)

\* round(total / n, 1) for a total in tenths (no total of the model divided
\* by its n falls on a half).
RoundDiv(total, n) == (2 * total + n) \div (2 * n)

\* What get_job_statistics returns for an empty store.
EmptyStatistics ==
    [total_jobs |-> 0, by_status |-> << >>, by_priority |-> << >>,
     total_carbon_saved_kg |-> 0, total_cost_saved_gbp |-> 0]

\* The stats dict of get_job_statistics for the jobs of all_jobs and the
\* status counts taken over them. Totals are in hundredths, where
\* round(total, 2) returns the decimal sum; averages are in tenths.
JobStatistics(all_jobs, status_counts) ==
    LET scheduled == {j \in all_jobs : j.schedule # None}
        n == IF Cardinality(scheduled) > 1 THEN Cardinality(scheduled) ELSE 1
    IN  [total_jobs |-> Cardinality(all_jobs),
         by_status |-> status_counts,
         by_priority |-> [p \in Priority |->
                            Cardinality({j \in all_jobs : j.priority = p})],
         total_carbon_saved_kg |-> SumJobs(scheduled, "carbon_saved_kg"),
         total_cost_saved_gbp |-> SumJobs(scheduled, "cost_saved_gbp"),
         avg_carbon_reduction_percent |->
             RoundDiv(SumJobs(scheduled, "carbon_reduction_percent"), n),
         avg_cost_reduction_percent |->
             RoundDiv(SumJobs(scheduled, "cost_reduction_percent"), n)]

\* get_job_statistics run without another thread in between.
get_job_statistics ==
    LET all_jobs == list_jobs(None, None)
    IN  IF all_jobs = {}
        THEN EmptyStatistics
        ELSE JobStatistics(all_jobs,
                           [st \in JobStatus |->
                               Cardinality({j \in all_jobs : j.status = st})])

get_flexibility_summary ==
    LET pending == get_pending_jobs
        flex_jobs == {j \in pending : j.flexibility_type # FIXED}
    IN  IF pending = {}
        THEN [pending_jobs |-> 0, total_deferrable_kwh |-> 0,
              total_flex_hours |-> 0, avg_deferral_hours |-> 0]
        ELSE [pending_jobs |-> Cardinality(pending),
              flexible_jobs |-> Cardinality(flex_jobs),
              total_deferrable_kwh |-> SumJobs(flex_jobs, "energy"),
              total_flex_hours |-> SumJobs(flex_jobs, "deferral"),
              avg_deferral_hours |->
                  IF flex_jobs = {} THEN 0
                  ELSE RoundDiv(10 * SumJobs(flex_jobs, "deferral"),
                                Cardinality(flex_jobs))]

\* A read operation returns its value and touches nothing else.
Read(op, arg, value) ==
    /\ last' = Outcome(op, arg, "ok", value, None)
    /\ UNCHANGED <<assets, jobs, now>>
    /\ UNCHANGED <<optVars, extVars>>

\* A get_job that takes the job out of the dict (jobs.pop in place of jobs.get).
GetJob_Popping(job_id) ==
    /\ last' = Outcome("get_job", [job_id |-> job_id], "ok", get_job(job_id), None)
    /\ jobs' = Drop(jobs, job_id)
    /\ UNCHANGED <<assets, now>>
    /\ UNCHANGED <<optVars, extVars>>

GetJob(job_id) == Read("get_job", [job_id |-> job_id], get_job(job_id))

GetAsset(asset_id) == Read("get_asset", [asset_id |-> asset_id], get_asset(asset_id))

ListJobs(status, region) ==
    Read("list_jobs", [status |-> status, region |-> region], list_jobs(status, region))

ListAssets(region) == Read("list_assets", [region |-> region], list_assets(region))

GetJobStatistics == Read("get_job_statistics", << >>, get_job_statistics)

GetFlexibilitySummary == Read("get_flexibility_summary", << >>, get_flexibility_summary)

\* ------------------------------------ job_agent.py: writers, statement by statement
\* Request handlers run on threads of their own and JobAgent holds no lock, so
\* the statements of one writer interleave with those of another and with a
\* reader. threads holds each writer's position and local variables; seen is
\* the Job a reader got (all of its fields read at one instant).
Writers == {"w1", "w2"}

IdleThread ==
    [pc |-> "idle", op |-> "", job_id |-> "", schedule |-> None, new_status |-> "",
     result |-> "", wrote_at |-> None]

\* What the concurrent callers ask for: schedules in one region, and the
\* status changes that follow a schedule.
ConcSchedules == {sch \in ScheduleInputs : sch.region = "london"}
ConcStatuses == {SCHEDULED, RUNNING, COMPLETED}

Others ==
    /\ UNCHANGED <<assets, last>>
    /\ UNCHANGED <<optVars, netVars, schedVars>>

\* attach_schedule: job = self.get_job(job_id); if not job: raise.
BeginAttach(t, job_id, schedule) ==
    /\ threads[t].pc = "idle"
    /\ threads' = [threads EXCEPT ![t] =
          IF get_job(job_id) = None
          THEN [@ EXCEPT !.pc = "done", !.op = "attach_schedule", !.job_id = job_id,
                         !.schedule = Some(schedule), !.result = "JobNotFound"]
          ELSE [@ EXCEPT !.pc = "set_schedule", !.op = "attach_schedule",
                         !.job_id = job_id, !.schedule = Some(schedule)]]
    /\ UNCHANGED <<jobs, now, seen>>
    /\ Others

\* job.schedule = schedule
AttachSetSchedule(t) ==
    /\ threads[t].pc = "set_schedule"
    /\ jobs' = [jobs EXCEPT ![threads[t].job_id].schedule = threads[t].schedule]
    /\ threads' = [threads EXCEPT ![t].pc = "set_status"]
    /\ UNCHANGED <<now, seen>>
    /\ Others

\* job.status = JobStatus.SCHEDULED
AttachSetStatus(t) ==
    /\ threads[t].pc = "set_status"
    /\ jobs' = [jobs EXCEPT ![threads[t].job_id].status = SCHEDULED]
    /\ threads' = [threads EXCEPT ![t].pc = "set_scheduled_at"]
    /\ UNCHANGED <<now, seen>>
    /\ Others

\* job.scheduled_at = datetime.now(); return job
AttachSetScheduledAt(t) ==
    /\ threads[t].pc = "set_scheduled_at"
    /\ jobs' = [jobs EXCEPT ![threads[t].job_id].scheduled_at = Some(now)]
    /\ threads' = [threads EXCEPT ![t] =
                     [@ EXCEPT !.pc = "done", !.result = "ok", !.wrote_at = Some(now)]]
    /\ UNCHANGED <<now, seen>>
    /\ Others

\* update_job_status: job = self.get_job(job_id); if not job: raise.
BeginUpdate(t, job_id, new_status) ==
    /\ threads[t].pc = "idle"
    /\ threads' = [threads EXCEPT ![t] =
          IF get_job(job_id) = None
          THEN [@ EXCEPT !.pc = "done", !.op = "update_job_status", !.job_id = job_id,
                         !.new_status = new_status, !.result = "JobNotFound"]
          ELSE [@ EXCEPT !.pc = "update_status", !.op = "update_job_status",
                         !.job_id = job_id, !.new_status = new_status]]
    /\ UNCHANGED <<jobs, now, seen>>
    /\ Others

\* job.status = new_status
UpdateSetStatus(t) ==
    /\ threads[t].pc = "update_status"
    /\ jobs' = [jobs EXCEPT ![threads[t].job_id].status = threads[t].new_status]
    /\ threads' = [threads EXCEPT ![t].pc = "update_timestamp"]
    /\ UNCHANGED <<now, seen>>
    /\ Others

\* now = datetime.now(); the timestamp of the new status; return job
UpdateSetTimestamp(t) ==
    /\ threads[t].pc = "update_timestamp"
    /\ LET j == threads[t].job_id
           st == threads[t].new_status
       IN  jobs' = IF st = SCHEDULED
                   THEN [jobs EXCEPT ![j].scheduled_at = Some(now)]
                   ELSE IF st = RUNNING
                   THEN [jobs EXCEPT ![j].started_at = Some(now)]
                   ELSE IF st \in {COMPLETED, FAILED, CANCELLED}
                   THEN [jobs EXCEPT ![j].completed_at = Some(now)]
                   ELSE jobs
    /\ threads' = [threads EXCEPT ![t] =
                     [@ EXCEPT !.pc = "done", !.result = "ok", !.wrote_at = Some(now)]]
    /\ UNCHANGED <<now, seen>>
    /\ Others

\* A reader: get_job and the serialisation of what it returned.
ReaderGetJob(job_id) ==
    /\ job_id \in DOMAIN jobs
    /\ seen' = get_job(job_id)
    /\ UNCHANGED <<jobs, now, threads>>
    /\ Others

\* get_job_statistics beside the writers: all_jobs = list(self.jobs.values())
\* holds the Job objects themselves, so each status count reads the status
\* a Job has at that moment. seen holds the reader's locals until it returns.
StatBegin ==
    /\ last.op = "init"
    /\ seen = None
    /\ IF DOMAIN jobs = {}
       THEN /\ last' = Outcome("get_job_statistics", << >>, "ok", EmptyStatistics, None)
            /\ seen' = seen
       ELSE /\ seen' = Some([all_jobs |-> DOMAIN jobs, status_counts |-> << >>])
            /\ last' = last
    /\ UNCHANGED <<assets, jobs, now, threads>>
    /\ UNCHANGED <<optVars, netVars, schedVars>>

\* One round of `for status in JobStatus`: the count of the next status.
StatCount ==
    /\ seen # None
    /\ DOMAIN seen[1].status_counts # JobStatus
    /\ LET status == StatusOrder[Cardinality(DOMAIN seen[1].status_counts) + 1]
           count == Cardinality({j \in seen[1].all_jobs : jobs[j].status = status})
       IN  seen' = Some([seen[1] EXCEPT !.status_counts = Put(@, status, count)])
    /\ UNCHANGED <<assets, jobs, now, last, threads>>
    /\ UNCHANGED <<optVars, netVars, schedVars>>

\* The priority counts, the sums and the return.
StatReturn ==
    /\ seen # None
    /\ DOMAIN seen[1].status_counts = JobStatus
    /\ last' = Outcome("get_job_statistics", << >>, "ok",
                       JobStatistics({jobs[j] : j \in seen[1].all_jobs},
                                     seen[1].status_counts),
                       None)
    /\ seen' = None
    /\ UNCHANGED <<assets, jobs, now, threads>>
    /\ UNCHANGED <<optVars, netVars, schedVars>>

\* Time passes between the statements.
Advance ==
    /\ now < MaxTime
    /\ now' = now + 1
    /\ UNCHANGED <<jobs, threads, seen>>
    /\ Others

\* ------------------------------------------------ energy_agent.py: EnergyAgent
\* Units: carbon intensity in gCO2/kWh, price in pence/kWh (0.01 GBP),
\* stress in tenths, renewable fraction in hundredths. A tick is one hour
\* and tick 0 is 16:00, so the grid crosses the 17:00 peak boundary.
HourOf(timestamp) == (16 + timestamp) % 24

estimate_renewable_from_carbon(carbon_intensity) ==
    IF carbon_intensity < 100 THEN 70
    ELSE IF carbon_intensity < 200 THEN 50
    ELSE IF carbon_intensity < 300 THEN 30
    ELSE 15

estimate_stress_from_time(timestamp) ==
    LET hour == HourOf(timestamp)
    IN  IF 17 <= hour /\ hour < 20 THEN 8
        ELSE IF (8 <= hour /\ hour < 17) \/ (20 <= hour /\ hour < 22) THEN 5
        ELSE 2

\* The GridSignal get_forecast_signals builds for one forecast period.
ForecastSignal(timestamp, carbon_intensity, price_per_kwh) ==
    [timestamp |-> timestamp,
     carbon_intensity_g_per_kwh |-> carbon_intensity,
     price_per_kwh |-> price_per_kwh,
     price_per_mwh |-> price_per_kwh * 1000,
     renewable_fraction |-> estimate_renewable_from_carbon(carbon_intensity),
     stress_level |-> estimate_stress_from_time(timestamp)]

Carbons == {100, 300}
Prices == {10, 13}
SignalInputs ==
    {ForecastSignal(t, c, p) : t \in Times, c \in Carbons, p \in Prices}

RECURSIVE SeqsUpTo(_, _)
SeqsUpTo(S, n) ==
    IF n = 0 THEN {<< >>}
    ELSE LET shorter == SeqsUpTo(S, n - 1)
         IN  shorter \cup {Append(q, x) : q \in shorter, x \in S}

ForecastInputs == SeqsUpTo(SignalInputs, MaxSignals)

\* Arguments of find_optimal_windows (the region selects the forecast).
QueryInputs ==
    [window_start : Times, window_end : Times, duration_hours : 1..MaxDur,
     carbon_cap : {None, Some(0), Some(200)},
     max_price : {None, Some(0), Some(10)}]

RECURSIVE Factorial(_)
Factorial(n) == IF n <= 1 THEN 1 ELSE n * Factorial(n - 1)

\* Means are kept exactly, as multiples of 1/MeanScale: the mean of n <=
\* MaxSignals integers times MeanScale is an integer.
MeanScale == Factorial(MaxSignals)

RECURSIVE SumOf(_, _)
SumOf(seq, field) ==
    IF seq = << >> THEN 0 ELSE Head(seq)[field] + SumOf(Tail(seq), field)

\* statistics.mean, times MeanScale.
Mean(seq, field) == SumOf(seq, field) * (MeanScale \div Len(seq))

\* Python truthiness of an Optional number: None and 0 are falsy.
Truthy(opt) == opt # None /\ opt[1] # 0

\* 0.6 * (avg_carbon / 500) + 0.3 * (avg_price / 0.30) + 0.1 * avg_stress,
\* times 2500 * MeanScale.
Score(avg_carbon, avg_price, avg_stress) ==
    3 * avg_carbon + 25 * avg_price + 25 * avg_stress

RelevantSignals(fc, window_start, window_end) ==
    SelectSeq(fc, LAMBDA s : window_start <= s.timestamp /\ s.timestamp <= window_end)

JobSignals_EndInclusive(relevant_signals, potential_start, potential_end) ==
    SelectSeq(relevant_signals,
              LAMBDA s : potential_start <= s.timestamp /\ s.timestamp <= potential_end)

JobSignals(relevant_signals, potential_start, potential_end) ==
    SelectSeq(relevant_signals,
              LAMBDA s : potential_start <= s.timestamp /\ s.timestamp < potential_end)

FitsWindow_Always(potential_end, window_end) == TRUE

FitsWindow(potential_end, window_end) == ~(potential_end > window_end)

CarbonCapOk(carbon_cap, avg_carbon) ==
    ~(Truthy(carbon_cap) /\ avg_carbon > carbon_cap[1] * MeanScale)

MaxPriceOk(max_price, avg_price) ==
    ~(Truthy(max_price) /\ avg_price > max_price[1] * MeanScale)

\* One pass of the loop over relevant_signals: the candidates appended for
\* signal (empty when the loop continues).
CandidateFor(signal, relevant_signals, q) ==
    LET potential_start == signal.timestamp
        potential_end == potential_start + q.duration_hours
        job_signals == JobSignals(relevant_signals, potential_start, potential_end)
        avg_carbon == Mean(job_signals, "carbon_intensity_g_per_kwh")
        avg_price == Mean(job_signals, "price_per_kwh")
        avg_stress == Mean(job_signals, "stress_level")
        avg_renewable == Mean(job_signals, "renewable_fraction")
    IN  IF ~FitsWindow(potential_end, q.window_end) THEN << >>
        ELSE IF job_signals = << >> THEN << >>
        ELSE IF ~CarbonCapOk(q.carbon_cap, avg_carbon) THEN << >>
        ELSE IF ~MaxPriceOk(q.max_price, avg_price) THEN << >>
        ELSE << [start |-> potential_start,
                 score |-> Score(avg_carbon, avg_price, avg_stress),
                 avg_carbon |-> avg_carbon,
                 avg_price |-> avg_price,
                 avg_renewable |-> avg_renewable] >>

RECURSIVE CandidateStarts(_, _, _)
CandidateStarts(rest, relevant_signals, q) ==
    IF rest = << >> THEN << >>
    ELSE CandidateFor(Head(rest), relevant_signals, q)
             \o CandidateStarts(Tail(rest), relevant_signals, q)

RECURSIVE InsertByScore_TiesFirst(_, _)
InsertByScore_TiesFirst(sorted, c) ==
    IF sorted = << >> THEN << c >>
    ELSE IF c.score <= Head(sorted).score THEN << c >> \o sorted
    ELSE << Head(sorted) >> \o InsertByScore_TiesFirst(Tail(sorted), c)

\* list.sort(key=score): stable, ascending.
RECURSIVE InsertByScore(_, _)
InsertByScore(sorted, c) ==
    IF sorted = << >> THEN << c >>
    ELSE IF c.score < Head(sorted).score THEN << c >> \o sorted
    ELSE << Head(sorted) >> \o InsertByScore(Tail(sorted), c)

RECURSIVE SortByScore(_)
SortByScore(seq) ==
    IF seq = << >> THEN << >>
    ELSE InsertByScore(SortByScore(SubSeq(seq, 1, Len(seq) - 1)), seq[Len(seq)])

find_optimal_windows(fc, q) ==
    LET relevant_signals == RelevantSignals(fc, q.window_start, q.window_end)
    IN  IF relevant_signals = << >> THEN << >>
        ELSE SortByScore(CandidateStarts(relevant_signals, relevant_signals, q))

FindOptimalWindows(q) ==
    /\ query = None
    /\ query' = Some(q)
    /\ windows' = find_optimal_windows(forecast, q)
    /\ UNCHANGED forecast
    /\ UNCHANGED <<regVars, extVars>>

\* ------------------------------------------------ the Scheduler: scheduleJob
\* scheduler.schedule_job, as the specification states it: load the Job,
\* reject it unless PENDING, run the optimiser over the Job's window, persist
\* the best window as a Schedule through attach_schedule, and append one entry
\* to the audit log whatever the outcome. upstream is what the Grid Signal
\* Source yields for the call: a forecast, or None when it is unavailable
\* after the retries (get_forecast_signals re-raises).
MaxLog == 1

IsSchedulable_Always(job) == TRUE

IsSchedulable(job) == job.status = PENDING

Upstreams ==
    {None, Some(<< >>)} \cup {Some(<< ForecastSignal(t, 100, 10) >>) : t \in {0, 1}}

\* The arguments schedule_job passes to find_optimal_windows.
JobQuery(job) ==
    [window_start |-> job.earliest_start, window_end |-> job.latest_finish,
     duration_hours |-> job.duration_hours, carbon_cap |-> None, max_price |-> None]

\* The Schedule of the best window, in one of the Job's allowed regions.
BestSchedule(job, candidates) ==
    [region |-> CHOOSE r \in job.allowed_regions : TRUE,
     start_time |-> candidates[1].start,
     end_time |-> candidates[1].start + job.duration_hours]

\* What the optimiser step of schedule_job ends in for a PENDING job.
Optimise(job, upstream) ==
    IF upstream = None
    THEN [result |-> "UpstreamUnavailable", schedule |-> None]
    ELSE LET candidates == find_optimal_windows(upstream[1], JobQuery(job))
         IN  IF candidates = << >>
             THEN [result |-> "NoFeasibleWindow", schedule |-> None]
             ELSE [result |-> "ok", schedule |-> Some(BestSchedule(job, candidates))]

\* The Job after a scheduling attempt that ended in `attempt`.
AfterAttempt_MarkedFailed(job, attempt) ==
    IF attempt.result = "ok"
    THEN [job EXCEPT !.schedule = attempt.schedule,
                     !.status = SCHEDULED,
                     !.scheduled_at = Some(now)]
    ELSE [job EXCEPT !.status = FAILED, !.completed_at = Some(now)]

AfterAttempt(job, attempt) ==
    IF attempt.result = "ok"
    THEN [job EXCEPT !.schedule = attempt.schedule,
                     !.status = SCHEDULED,
                     !.scheduled_at = Some(now)]
    ELSE job

DecisionType(result) ==
    IF result = "ok" THEN "SCHEDULE"
    ELSE IF result = "NoFeasibleWindow" THEN "DEFER"
    ELSE "REJECT"

\* The DecisionLog entry of one attempt; log_id numbers the entries.
DecisionLog(entries, job_id, attempt) ==
    [log_id |-> Len(entries) + 1, timestamp |-> now, job_id |-> job_id,
     decision_type |-> DecisionType(attempt.result), schedule |-> attempt.schedule]

\* audit_logger.log_decision: the entry goes to the end of the log.
log_decision_LatestPerJob(entries, entry) ==
    Append(SelectSeq(entries, LAMBDA e : e.job_id # entry.job_id), entry)

log_decision(entries, entry) == Append(entries, entry)

\* schedule_job on the store `store` with the audit log `entries`: the
\* outcome, the store and the log afterwards.
schedule_job(store, entries, job_id, upstream) ==
    LET attempt ==
            IF job_id \notin DOMAIN store
            THEN [result |-> "JobNotFound", schedule |-> None]
            ELSE IF ~IsSchedulable(store[job_id])
            THEN [result |-> "InvalidState", schedule |-> None]
            ELSE Optimise(store[job_id], upstream)
    IN  [result |-> attempt.result,
         jobs |-> IF job_id \in DOMAIN store
                  THEN [store EXCEPT ![job_id] = AfterAttempt(@, attempt)]
                  ELSE store,
         log |-> log_decision(entries, DecisionLog(entries, job_id, attempt))]

ScheduleJob(job_id, upstream) ==
    LET done == schedule_job(jobs, log, job_id, upstream)
    IN  /\ Len(log) < MaxLog
        /\ jobs' = done.jobs
        /\ log' = done.log
        /\ last' = Outcome("schedule_job", [job_id |-> job_id], done.result, {},
                           IF done.result = "ok" THEN Some(job_id) ELSE None)
        /\ UNCHANGED <<assets, now, batch, slots>>
        /\ UNCHANGED <<optVars, netVars, conVars>>

\* ------------------------------------------ the Scheduler: scheduleAllPending
\* scheduler.schedule_all_pending, as the specification states it: the jobs
\* get_pending_jobs returns, ordered by priority (critical first) and then by
\* ascending max_deferral_hours, each handed to schedule_job; the result
\* reports every job. batch holds the loop: the order fixed at the start, the
\* jobs still to come, the results so far.
PriorityRank == [critical |-> 0, high |-> 1, normal |-> 2, low |-> 3]

OrdersOf(ids) ==
    {o \in [1..Cardinality(ids) -> ids] : \A i, k \in DOMAIN o : i # k => o[i] # o[k]}

\* a sorts before b, or ties with it.
BatchOrdered(a, b) ==
    \/ PriorityRank[a.priority] < PriorityRank[b.priority]
    \/ /\ a.priority = b.priority
       /\ DeferralOf(a) <= DeferralOf(b)

BatchOrders ==
    LET ids == {j.job_id : j \in get_pending_jobs}
    IN  {o \in OrdersOf(ids) :
            \A i, k \in DOMAIN o : i < k => BatchOrdered(jobs[o[i]], jobs[o[k]])}

BeginBatch(order) ==
    /\ batch.pc = "idle"
    /\ order \in BatchOrders
    /\ batch' = [pc |-> "running", queue |-> order, order |-> order, results |-> << >>]
    /\ UNCHANGED <<regVars, optVars, netVars, conVars, log, slots>>

\* One pass of the loop: schedule_job on the next job; its failure is recorded
\* and the loop goes on.
BatchStep(upstream) ==
    /\ batch.pc = "running"
    /\ batch.queue # << >>
    /\ LET job_id == Head(batch.queue)
           done == schedule_job(jobs, log, job_id, upstream)
       IN  /\ jobs' = done.jobs
           /\ log' = done.log
           /\ batch' = [batch EXCEPT !.queue = Tail(@),
                                     !.results = Append(@, [job_id |-> job_id,
                                                            success |-> done.result = "ok",
                                                            result |-> done.result])]
    /\ UNCHANGED <<assets, now, last, slots>>
    /\ UNCHANGED <<optVars, netVars, conVars>>

EndBatch ==
    /\ batch.pc = "running"
    /\ batch.queue = << >>
    /\ batch' = [batch EXCEPT !.pc = "done"]
    /\ last' = Outcome("schedule_all_pending", << >>, "ok", batch.results, None)
    /\ UNCHANGED <<assets, jobs, now, log, slots>>
    /\ UNCHANGED <<optVars, netVars, conVars>>

\* ------------------------------------- the Flexibility Marketplace Adapter
\* beckn_adapter.search_flexibility_slots and confirm_slot, as the
\* specification states them. slots maps a slot id to the published slot:
\* the Job it refers to, the window offered, and whether it has been retired
\* by a confirmation. A Job has one slot id; a later search republishes it.
SlotIdOf(job_id) == << "slot", job_id >>

\* The three assignments of attach_schedule on a loaded Job.
attach_schedule_StatusKept(job, schedule) ==
    [job EXCEPT !.schedule = Some(schedule), !.scheduled_at = Some(now)]

attach_schedule(job, schedule) ==
    [job EXCEPT !.schedule = Some(schedule),
                !.status = SCHEDULED,
                !.scheduled_at = Some(now)]

\* The slots a search publishes: one for every PENDING Job (of the region
\* asked for) that the optimiser finds a window for.
SlotsFound(region, forecast_signals) ==
    LET pending == {j \in get_pending_jobs :
                       region = None \/ region[1] \in j.allowed_regions}
        offered == {j \in pending : Optimise(j, Some(forecast_signals)).result = "ok"}
    IN  [sid \in {SlotIdOf(j.job_id) : j \in offered} |->
            [slot_id |-> sid,
             job_id |-> sid[2],
             schedule |-> Optimise(jobs[sid[2]], Some(forecast_signals)).schedule[1],
             retired |-> FALSE]]

SearchFlexibilitySlots(region, upstream) ==
    LET arg == [region |-> region, upstream |-> upstream]
    IN  /\ UNCHANGED <<assets, jobs, now, batch, log>>
        /\ UNCHANGED <<optVars, netVars, conVars>>
        /\ IF upstream = None
           THEN /\ slots' = slots
                /\ last' = Outcome("search_flexibility_slots", arg,
                                   "UpstreamUnavailable", {}, None)
           ELSE LET found == SlotsFound(region, upstream[1])
                IN  /\ slots' = [sid \in DOMAIN slots \cup DOMAIN found |->
                                    IF sid \in DOMAIN found THEN found[sid] ELSE slots[sid]]
                    /\ last' = Outcome("search_flexibility_slots", arg, "ok",
                                       {found[sid] : sid \in DOMAIN found}, None)

\* The window of the slot is still among the optimiser's candidates.
StillFeasible(job, slot, upstream) ==
    LET candidates == find_optimal_windows(upstream[1], JobQuery(job))
    IN  \E i \in DOMAIN candidates : candidates[i].start = slot.schedule.start_time

ConfirmSlot(slot_id, job_id, upstream) ==
    LET arg == [slot_id |-> slot_id, job_id |-> job_id, upstream |-> upstream]
        failed(e) == /\ last' = Outcome("confirm_slot", arg, e, {}, None)
                     /\ jobs' = jobs
                     /\ slots' = slots
    IN  /\ UNCHANGED <<assets, now, batch, log>>
        /\ UNCHANGED <<optVars, netVars, conVars>>
        /\ IF slot_id \notin DOMAIN slots \/ get_job(job_id) = None
           THEN failed("NotFound")
           ELSE IF slots[slot_id].job_id # job_id
           THEN failed("NotFound")
           ELSE IF ~IsSchedulable(jobs[job_id]) \/ slots[slot_id].retired
           THEN failed("SlotExpired")
           ELSE IF upstream = None
           THEN failed("UpstreamUnavailable")
           ELSE IF ~StillFeasible(jobs[job_id], slots[slot_id], upstream)
           THEN failed("SlotInfeasible")
           ELSE /\ jobs' = [jobs EXCEPT ![job_id] =
                              attach_schedule(@, slots[slot_id].schedule)]
                /\ slots' = [slots EXCEPT ![slot_id].retired = TRUE]
                /\ last' = Outcome("confirm_slot", arg, "ok", {}, Some(job_id))

\* ------------------------------------------- energy_agent.py: current signal
\* A decoded JSON value, tagged by its Python type: None, a number, a str, a
\* list, a dict (a function from its keys).
JNull == [null |-> TRUE]
JNum(v) == [num |-> v]
JStr(v) == [str |-> v]
JList(v) == [list |-> v]
JDict(v) == [dict |-> v]

IsNull(x) == "null" \in DOMAIN x
IsNum(x) == "num" \in DOMAIN x
IsStr(x) == "str" \in DOMAIN x
IsList(x) == "list" \in DOMAIN x
IsDict(x) == "dict" \in DOMAIN x

\* The value of a Python expression, or the exception it raises.
Val(v) == [val |-> v]
Raise(e) == [exc |-> e]
Raised(r) == "exc" \in DOMAIN r

\* `key in x` for a str key: dict membership, list membership, substring of
\* a str (none of the strings used properly contains another one).
PyContains(key, x) ==
    IF IsDict(x) THEN Val(key \in DOMAIN x.dict)
    ELSE IF IsList(x) THEN Val(\E i \in DOMAIN x.list : x.list[i] = JStr(key))
    ELSE IF IsStr(x) THEN Val(x.str = key)
    ELSE Raise("TypeError")

\* x[key] for a str key.
PyGetKey(x, key) ==
    IF IsDict(x)
    THEN IF key \in DOMAIN x.dict THEN Val(x.dict[key]) ELSE Raise("KeyError")
    ELSE Raise("TypeError")

\* The first character of the strings used.
FirstChar(s) ==
    IF s = "data" THEN "d" ELSE IF s = "245" THEN "2" ELSE s

\* x[0]: the keys of a decoded JSON object are strings, so 0 is never one.
PyGetFirst(x) ==
    IF IsList(x)
    THEN IF x.list # << >> THEN Val(x.list[1]) ELSE Raise("IndexError")
    ELSE IF IsStr(x)
    THEN IF x.str # "" THEN Val(JStr(FirstChar(x.str))) ELSE Raise("IndexError")
    ELSE IF IsDict(x) THEN Raise("KeyError")
    ELSE Raise("TypeError")

PyLen(x) ==
    IF IsList(x) THEN Val(Len(x.list))
    ELSE IF IsStr(x) THEN Val(Len(x.str))
    ELSE IF IsDict(x) THEN Val(Cardinality(DOMAIN x.dict))
    ELSE Raise("TypeError")

\* float(x): a number, or a str that spells one.
PyFloat(x) ==
    IF IsNum(x) THEN Val(x.num)
    ELSE IF IsStr(x)
    THEN IF x.str = "245" THEN Val(245) ELSE Raise("ValueError")
    ELSE Raise("TypeError")

\* x.get(key, default): only a dict has the method.
PyGet(x, key, default) ==
    IF IsDict(x)
    THEN Val(IF key \in DOMAIN x.dict THEN x.dict[key] ELSE default)
    ELSE Raise("AttributeError")

DefaultCarbon == 250

\* The try block of _extract_carbon_intensity.
ExtractBody(carbon_data) ==
    LET has == PyContains("data", carbon_data)
    IN  IF Raised(has) THEN has
        ELSE IF ~has.val THEN Val(DefaultCarbon)
        ELSE LET data == PyGetKey(carbon_data, "data")
             IN  IF Raised(data) THEN data
                 ELSE LET n == PyLen(data.val)
                      IN  IF Raised(n) THEN n
                          ELSE IF ~(n.val > 0) THEN Val(DefaultCarbon)
                          ELSE LET first == PyGetFirst(data.val)
                               IN  IF Raised(first) THEN first
                                   ELSE LET intensity == PyGetKey(first.val, "intensity")
                                        IN  IF Raised(intensity) THEN intensity
                                            ELSE LET forecast_or == PyGet(intensity.val, "forecast", JNum(250))
                                                 IN  IF Raised(forecast_or) THEN forecast_or
                                                     ELSE PyFloat(PyGet(intensity.val, "actual", forecast_or.val).val)

CaughtByExtract == {"KeyError", "IndexError", "TypeError"}

extract_carbon_intensity(carbon_data) ==
    LET r == ExtractBody(carbon_data)
    IN  IF Raised(r) /\ r.exc \in CaughtByExtract THEN Val(DefaultCarbon) ELSE r

RenewableTypes == {"wind", "solar", "hydro", "biomass"}

\* str.lower() on the fuel tags used.
Lower(s) == IF s = "Wind" THEN "wind" ELSE s

\* The generator handed to sum(): for each item in turn, item['fuel'].lower()
\* is looked up, and item['perc'] is added when the fuel is renewable.
RECURSIVE SumRenewable(_)
SumRenewable(mix) ==
    IF mix = << >> THEN Val(0)
    ELSE LET fuel == PyGetKey(Head(mix), "fuel")
         IN  IF Raised(fuel) THEN fuel
             ELSE IF ~IsStr(fuel.val) THEN Raise("AttributeError")
             ELSE IF Lower(fuel.val.str) \notin RenewableTypes THEN SumRenewable(Tail(mix))
             ELSE LET perc == PyGetKey(Head(mix), "perc")
                  IN  IF Raised(perc) THEN perc
                      ELSE IF ~IsNum(perc.val) THEN Raise("TypeError")
                      ELSE LET rest == SumRenewable(Tail(mix))
                           IN  IF Raised(rest) THEN rest
                               ELSE Val(perc.val.num + rest.val)

\* The fallback fraction, 0.3, in hundredths.
FallbackRenewable == 30

CaughtByRenewable == {"KeyError", "TypeError"}

\* total_renewable / 100.0, in hundredths; generation_mix is the dict
\* get_generation_mix returns, which always has the key 'mix'.
calculate_renewable_fraction(generation_mix) ==
    LET mix == generation_mix.mix
        r == IF IsList(mix) THEN SumRenewable(mix.list) ELSE Val(FallbackRenewable)
    IN  IF Raised(r) /\ r.exc \in CaughtByRenewable THEN Val(FallbackRenewable) ELSE r

\* GridSignal.generation_mix is declared Dict[str, float]: the model accepts
\* a dict of numbers and rejects every other value with a ValidationError.
ValidGenerationMix_AnyValue(mix) == TRUE

ValidGenerationMix(mix) ==
    /\ IsDict(mix)
    /\ \A k \in DOMAIN mix.dict : IsNum(mix.dict[k])

\* Stress in tenths (1.0 is StressUnit); demand in MW; frequency in
\* hundredths of a Hz.
StressUnit == 10

Abs(x) == IF x < 0 THEN -x ELSE x
Min(a, b) == IF a < b THEN a ELSE b

\* abs(frequency_hz - 50.0) > 0.2 (and > 0.1) in binary floating point, for a
\* frequency with two decimals: the difference is computed exactly from the
\* double nearest the reading, and at a deviation of 0.2 (50.2 - 50.0 =
\* 0.20000000000000284) or 0.1 it lies above the double nearest the
\* threshold, so the comparison is true there as well as beyond.
FloatExceeds(deviation, threshold) == deviation >= threshold

calculate_stress_level(carbon_intensity, demand_mw, frequency_hz) ==
    LET carbon == IF carbon_intensity > 400 THEN 5
                  ELSE IF carbon_intensity > 300 THEN 3
                  ELSE IF carbon_intensity > 200 THEN 1
                  ELSE 0
        demand == IF ~Truthy(demand_mw) THEN 0
                  ELSE IF demand_mw[1] > 40000 THEN 3
                  ELSE IF demand_mw[1] > 35000 THEN 2
                  ELSE IF demand_mw[1] > 30000 THEN 1
                  ELSE 0
        freq_deviation == IF Truthy(frequency_hz) THEN Abs(frequency_hz[1] - 5000) ELSE 0
        frequency == IF ~Truthy(frequency_hz) THEN 0
                     ELSE IF FloatExceeds(freq_deviation, 20) THEN 2
                     ELSE IF FloatExceeds(freq_deviation, 10) THEN 1
                     ELSE 0
    IN  Min(carbon + demand + frequency, StressUnit)

\* The fallback price, 0.15 GBP/kWh, in pence.
FallbackPrice == 15

\* What the three upstream clients hand to get_current_grid_signal.
IntensityValues ==
    {JNull, JNum(245), JNum(450), JStr("245"), JStr("x"), JList(<< >>)}
IntensityObjects ==
    {JNull, JNum(5), JStr("x"), JList(<< >>), JDict(<< >>)}
        \cup {JDict([actual |-> a]) : a \in IntensityValues}
        \cup {JDict([forecast |-> a]) : a \in IntensityValues}
        \cup {JDict([actual |-> a, forecast |-> JNum(450)]) : a \in IntensityValues}
DataItems ==
    {JNull, JStr("x"), JList(<< >>), JDict(<< >>)}
        \cup {JDict([intensity |-> i]) : i \in IntensityObjects}
DataValues ==
    {JNull, JNum(5), JStr("x"), JStr(""), JList(<< >>), JDict(<< >>),
     JDict([regionid |-> JNum(11)])}
        \cup {JList(<< e >>) : e \in DataItems}
CarbonPayloads ==
    {JNull, JNum(5), JStr("data"), JStr("x"), JList(<< >>),
     JList(<< JStr("data") >>), JDict(<< >>)}
        \cup {JDict([data |-> d]) : d \in DataValues}

FuelItem(fuel, perc) == JDict([fuel |-> JStr(fuel), perc |-> JNum(perc)])

\* The 'mix' get_generation_mix returns: the upstream's generationmix, or
\* the empty list when the upstream has none.
GenerationMixes ==
    {[mix |-> m] :
        m \in {JList(<< >>),
               JList(<< FuelItem("wind", 40), FuelItem("gas", 50), FuelItem("solar", 10) >>),
               JList(<< FuelItem("Wind", 40) >>),
               JList(<< FuelItem("wind", 80), FuelItem("solar", 40) >>),
               JList(<< JDict([fuel |-> JStr("wind")]) >>),
               JList(<< JDict([fuel |-> JNull, perc |-> JNum(40)]) >>),
               JList(<< JStr("x") >>),
               JNull,
               JDict(<< >>),
               JDict([wind |-> JNum(40)])}}
CurrentPrices == {None, Some(0 - 5), Some(0), Some(13)}
Demands == {None, Some(0), Some(32000), Some(36000), Some(45000)}
Frequencies == {None, Some(5000), Some(5015), Some(5020), Some(4970)}

CurrentInputs ==
    [region : {"london"}, carbon_data : CarbonPayloads,
     generation_mix : GenerationMixes, price : CurrentPrices,
     demand_mw : Demands, frequency_hz : Frequencies]

GridSignal_MwhAsKwh(region, timestamp, carbon_intensity, price_per_kwh, renewable_fraction, demand_mw, frequency_hz, stress_level) ==
    [region |-> region,
     timestamp |-> timestamp,
     carbon_intensity_g_per_kwh |-> carbon_intensity,
     price_per_kwh |-> price_per_kwh,
     price_per_mwh |-> price_per_kwh,
     renewable_fraction |-> renewable_fraction,
     demand_mw |-> demand_mw,
     frequency_hz |-> frequency_hz,
     stress_level |-> stress_level]

GridSignal(region, timestamp, carbon_intensity, price_per_kwh, renewable_fraction, demand_mw, frequency_hz, stress_level) ==
    [region |-> region,
     timestamp |-> timestamp,
     carbon_intensity_g_per_kwh |-> carbon_intensity,
     price_per_kwh |-> price_per_kwh,
     price_per_mwh |-> price_per_kwh * 1000,
     renewable_fraction |-> renewable_fraction,
     demand_mw |-> demand_mw,
     frequency_hz |-> frequency_hz,
     stress_level |-> stress_level]

\* get_current_grid_signal, given what the upstream clients return.
GetCurrentGridSignal(in) ==
    LET carbon_intensity == extract_carbon_intensity(in.carbon_data)
        renewable_fraction == calculate_renewable_fraction(in.generation_mix)
        price_per_kwh == IF in.price = None THEN FallbackPrice ELSE in.price[1]
    IN  /\ UNCHANGED <<assets, jobs, now>>
        /\ UNCHANGED <<optVars, extVars>>
        /\ IF Raised(carbon_intensity)
           THEN last' = Outcome("get_current_grid_signal", in, carbon_intensity.exc, {}, None)
           ELSE IF Raised(renewable_fraction)
           THEN last' = Outcome("get_current_grid_signal", in, renewable_fraction.exc, {}, None)
           ELSE IF ~ValidGenerationMix(in.generation_mix.mix)
           THEN last' = Outcome("get_current_grid_signal", in, "ValidationError", {}, None)
           ELSE last' = Outcome("get_current_grid_signal", in, "ok",
                            GridSignal(in.region, now, carbon_intensity.val, price_per_kwh,
                                       renewable_fraction.val,
                                       in.demand_mw, in.frequency_hz,
                                       calculate_stress_level(carbon_intensity.val,
                                                              in.demand_mw, in.frequency_hz)),
                            None)

\* ------------------------------------------ energy_agent.py: forecast signals
\* What the carbon and price clients hand to get_forecast_signals: periods
\* on the time grid.
CarbonPeriods == [from : Times, forecast : Carbons]
PricePeriods == [timestamp : Times, price_per_kwh : Prices \cup {0 - 5}]
CarbonForecasts == SeqsUpTo(CarbonPeriods, MaxSignals)
PriceForecasts == SeqsUpTo(PricePeriods, MaxSignals)

\* The price of the first price period within 30 minutes (1800 s) of
\* timestamp, a tick being 3600 s; the fallback price when there is none.
RECURSIVE MatchingPrice(_, _)
MatchingPrice(timestamp, price_forecast) ==
    IF price_forecast = << >> THEN FallbackPrice
    ELSE IF Abs(timestamp - Head(price_forecast).timestamp) * 3600 < 1800
         THEN Head(price_forecast).price_per_kwh
         ELSE MatchingPrice(timestamp, Tail(price_forecast))

RECURSIVE BuildSignals(_, _)
BuildSignals(carbon_forecast, price_forecast) ==
    IF carbon_forecast = << >> THEN << >>
    ELSE << ForecastSignal(Head(carbon_forecast).from,
                           Head(carbon_forecast).forecast,
                           MatchingPrice(Head(carbon_forecast).from, price_forecast)) >>
             \o BuildSignals(Tail(carbon_forecast), price_forecast)

\* get_forecast_signals, given what the upstream clients return.
GetForecastSignals(carbon_forecast, price_forecast) ==
    /\ forecast' = BuildSignals(carbon_forecast, price_forecast)
    /\ last' = Outcome("get_forecast_signals",
                       [carbon_forecast |-> carbon_forecast,
                        price_forecast |-> price_forecast],
                       "ok", {}, None)
    /\ UNCHANGED <<assets, jobs, now, query, windows>>
    /\ UNCHANGED extVars

\* --------------------------------------- api_clients.py: the forecast horizon
\* seq[:n] of Python.
PySliceTo(seq, n) ==
    IF n >= 0 THEN SubSeq(seq, 1, Min(Len(seq), n))
    ELSE SubSeq(seq, 1, IF Len(seq) + n > 0 THEN Len(seq) + n ELSE 0)

\* get_intensity_forecast: the first hours_ahead * 2 periods the upstream
\* lists under 'data'.
get_intensity_forecast(data, hours_ahead) == PySliceTo(data, hours_ahead * 2)

\* get_forecast_signals(region, hours_ahead), given the periods the carbon
\* upstream lists and the price forecast: one signal per period handed on, in
\* that order, each built with region = region.
GetForecastSignalsFor(region, hours_ahead, data, price_forecast) ==
    LET carbon_forecast == get_intensity_forecast(data, hours_ahead)
        signals == BuildSignals(carbon_forecast, price_forecast)
    IN  /\ forecast' = signals
        /\ last' = Outcome("get_forecast_signals",
                           [region |-> region, hours_ahead |-> hours_ahead,
                            data |-> data, carbon_forecast |-> carbon_forecast,
                            price_forecast |-> price_forecast],
                           "ok", [i \in DOMAIN signals |-> region], None)
        /\ UNCHANGED <<assets, jobs, now, query, windows>>
        /\ UNCHANGED extVars

\* ------------------------------------------- energy_agent.py: compare_regions
\* 0.7 * (avg_carbon / 500) + 0.3 * (avg_price / 0.30), times 5000 *
\* MeanScale.
CompareScore(avg_carbon, avg_price) == 7 * avg_carbon + 50 * avg_price

\* get_forecast_signals for a region: the forecast, or the exception it
\* re-raises when an upstream call fails. upstream maps each region to what
\* its forecast call yields, None for a failure.
ForecastFor(region, upstream) ==
    IF upstream[region] = None THEN Raise("Exception") ELSE Val(upstream[region][1])

\* The body of the try block for one region: the entry to store, None when
\* the loop continues without one.
RegionEntry(region, upstream, start_time, end_time) ==
    LET fc == ForecastFor(region, upstream)
    IN  IF Raised(fc) THEN fc
        ELSE LET job_signals ==
                     SelectSeq(fc.val, LAMBDA s : start_time <= s.timestamp
                                                    /\ s.timestamp < end_time)
             IN  IF job_signals = << >> THEN Val(None)
                 ELSE LET avg_carbon == Mean(job_signals, "carbon_intensity_g_per_kwh")
                          avg_price == Mean(job_signals, "price_per_kwh")
                          avg_renewable == Mean(job_signals, "renewable_fraction")
                      IN  Val(Some([carbon_intensity |-> avg_carbon,
                                    price_per_kwh |-> avg_price,
                                    renewable_fraction |-> avg_renewable,
                                    score |-> CompareScore(avg_carbon, avg_price)]))

\* except Exception: the error is logged and the loop goes on.
TryRegion_Reraised(entry) == entry

TryRegion(entry) == IF Raised(entry) THEN Val(None) ELSE entry

RECURSIVE CompareLoop(_, _, _, _, _)
CompareLoop(regions, comparison, upstream, start_time, end_time) ==
    IF regions = << >> THEN Val(comparison)
    ELSE LET entry == TryRegion(RegionEntry(Head(regions), upstream, start_time, end_time))
         IN  IF Raised(entry) THEN entry
             ELSE CompareLoop(Tail(regions),
                              IF entry.val = None THEN comparison
                              ELSE Put(comparison, Head(regions), entry.val[1]),
                              upstream, start_time, end_time)

compare_regions(regions, start_time, duration_hours, upstream) ==
    CompareLoop(regions, << >>, upstream, start_time, start_time + duration_hours)

CompareRegions(regions, start_time, duration_hours, upstream) ==
    LET comparison == compare_regions(regions, start_time, duration_hours, upstream)
        arg == [regions |-> regions, start_time |-> start_time,
                duration_hours |-> duration_hours, upstream |-> upstream]
    IN  /\ IF Raised(comparison)
           THEN last' = Outcome("compare_regions", arg, comparison.exc, << >>, None)
           ELSE last' = Outcome("compare_regions", arg, "ok", comparison.val, None)
        /\ UNCHANGED <<assets, jobs, now>>
        /\ UNCHANGED <<optVars, extVars>>

\* ------------------------------------------------- api_clients.py: APIClient
\* req is the call in flight: the cached operation (or "_make_request" for a
\* bare request), its arguments, the position in the retry loop of
\* _make_request, the upstream attempts made and how each ended, the sleeps
\* taken, and what the caller got back. clock is time.time() in seconds.
DefaultRetries == 3

IdleReq ==
    [pc |-> "idle", op |-> "", args |-> << >>, retries |-> 0, attempt |-> 0,
     calls |-> 0, waits |-> << >>, outcomes |-> << >>, result |-> "", data |-> None]

\* What one session.get + raise_for_status + json() can end in: a decoded
\* body, HTTP 429, HTTP 5xx, another HTTP 4xx, a timeout, any other
\* RequestException.
OK == "ok"
RATE_LIMITED == "rate_limited"
SERVER_ERROR == "server_error"
CLIENT_ERROR == "client_error"
TIMEOUT == "timeout"
REQUEST_FAILED == "request_failed"
UpstreamOutcomes ==
    {OK, RATE_LIMITED, SERVER_ERROR, CLIENT_ERROR, TIMEOUT, REQUEST_FAILED}

Pow2_Constant(n) == 1

Pow2(n) == 2 ^ n

RegionIds == [london |-> 11, scotland |-> 1]

\* The endpoint a cached operation requests.
Endpoint(op, args) ==
    IF op = "get_current_intensity"
    THEN [path |-> "/regional/regionid", id |-> RegionIds[args[1]]]
    ELSE IF op = "get_intensity_forecast"
    THEN [path |-> "/intensity/date", id |-> 0]
    ELSE [path |-> args[1], id |-> 0]

\* The decoded body the upstream serves for an endpoint at a time.
Response(endpoint, at) == [endpoint |-> endpoint, at |-> at]

\* _make_request is entered with the loop counter at 0.
BeginRequest(op, args, retries) ==
    [IdleReq EXCEPT !.pc = "request", !.op = op, !.args = args, !.retries = retries]

MakeRequest(endpoint, retries) ==
    /\ req.pc \in {"idle", "done"}
    /\ req' = BeginRequest("_make_request", << endpoint >>, retries)
    /\ UNCHANGED <<clock, cache, threads, seen>>
    /\ UNCHANGED <<regVars, optVars, schedVars>>

\* One pass of the loop body: session.get ends in outcome.
Attempted(r, outcome) ==
    [r EXCEPT !.calls = @ + 1, !.outcomes = Append(@, outcome)]

Finished(r, result, data) ==
    [r EXCEPT !.pc = "done", !.result = result, !.data = data]

\* ------------------------------------------- api_clients.py: cache_response
SpotTtl == 1800
ForecastTtl == 3600

\* The clock advances in steps of ClockStep seconds, up to MaxClock.
ClockStep == 900
MaxClock == 4500

CachedOps == {"get_current_intensity", "get_intensity_forecast"}

Ttl(op) == IF op = "get_intensity_forecast" THEN ForecastTtl ELSE SpotTtl

\* The calls made of the cached operations: positional arguments only.
CachedCalls ==
    {[op |-> "get_current_intensity", args |-> << "london" >>],
     [op |-> "get_current_intensity", args |-> << "scotland" >>],
     [op |-> "get_intensity_forecast", args |-> << 48 >>]}

\* The cache key: the md5 of "name:str(args):str(kwargs)", taken to be
\* collision-free, so the key is the name with the arguments.
CacheKey_NameOnly(op, args) == << op, << >> >>

CacheKey(op, args) == << op, args >>

\* What the decorated function returns for the decoded body.
FuncResult(op, args, data) ==
    IF op = "get_intensity_forecast"
    THEN [data |-> data, periods |-> args[1] * 2]
    ELSE [data |-> data, periods |-> 0]

CacheHit(op, args) ==
    /\ CacheKey(op, args) \in DOMAIN cache
    /\ clock - cache[CacheKey(op, args)].time < Ttl(op)

\* wrapper: return the cached data, or enter func and its _make_request.
CachedCall(op, args) ==
    /\ req.pc \in {"idle", "done"}
    /\ IF CacheHit(op, args)
       THEN req' = Finished([IdleReq EXCEPT !.op = op, !.args = args], "response",
                            Some(cache[CacheKey(op, args)].data))
       ELSE req' = BeginRequest(op, args, DefaultRetries)
    /\ UNCHANGED <<clock, cache, threads, seen>>
    /\ UNCHANGED <<regVars, optVars, schedVars>>

\* The except clauses of _make_request: sleep and go round again, or raise.
AfterFailure_ClientRetried(r, outcome) ==
    IF outcome = RATE_LIMITED THEN [r EXCEPT !.pc = "sleep"]
    ELSE IF outcome \in {SERVER_ERROR, CLIENT_ERROR}
    THEN IF r.attempt < r.retries - 1
         THEN [r EXCEPT !.pc = "sleep"]
         ELSE Finished(r, "HTTPError", None)
    ELSE IF outcome = TIMEOUT
    THEN IF r.attempt = r.retries - 1
         THEN Finished(r, "Timeout", None)
         ELSE [r EXCEPT !.pc = "sleep"]
    ELSE Finished(r, "RequestException", None)

AfterFailure(r, outcome) ==
    IF outcome = RATE_LIMITED THEN [r EXCEPT !.pc = "sleep"]
    ELSE IF outcome = SERVER_ERROR
    THEN IF r.attempt < r.retries - 1
         THEN [r EXCEPT !.pc = "sleep"]
         ELSE Finished(r, "HTTPError", None)
    ELSE IF outcome = CLIENT_ERROR THEN Finished(r, "HTTPError", None)
    ELSE IF outcome = TIMEOUT
    THEN IF r.attempt = r.retries - 1
         THEN Finished(r, "Timeout", None)
         ELSE [r EXCEPT !.pc = "sleep"]
    ELSE Finished(r, "RequestException", None)

\* The loop body of _make_request for one attempt, up to the sleep; on a
\* decoded body the function returns and the wrapper stores the result.
Attempt(outcome) ==
    /\ req.pc = "request"
    /\ req.attempt < req.retries
    /\ LET r == Attempted(req, outcome)
           body == Response(Endpoint(req.op, req.args), clock)
           result == FuncResult(req.op, req.args, body)
       IN  IF outcome = OK
           THEN IF req.op \in CachedOps
                THEN /\ req' = Finished(r, "response", Some(result))
                     /\ cache' = Put(cache, CacheKey(req.op, req.args),
                                     [data |-> result, time |-> clock])
                ELSE /\ req' = Finished(r, "response", Some(body))
                     /\ cache' = cache
           ELSE /\ req' = AfterFailure(r, outcome)
                /\ cache' = cache
    /\ UNCHANGED <<clock, threads, seen>>
    /\ UNCHANGED <<regVars, optVars, schedVars>>

\* time.sleep(2 ** attempt), then the next pass of the loop.
Sleep_SameAttempt ==
    /\ req.pc = "sleep"
    /\ req' = [req EXCEPT !.waits = Append(@, Pow2(req.attempt)), !.pc = "request"]
    /\ UNCHANGED <<clock, cache, threads, seen>>
    /\ UNCHANGED <<regVars, optVars, schedVars>>

Sleep ==
    /\ req.pc = "sleep"
    /\ req' = [req EXCEPT !.waits = Append(@, Pow2(req.attempt)),
                          !.attempt = @ + 1, !.pc = "request"]
    /\ UNCHANGED <<clock, cache, threads, seen>>
    /\ UNCHANGED <<regVars, optVars, schedVars>>

\* The loop ran out: raise Exception("Failed to fetch data ...").
Exhausted ==
    /\ req.pc = "request"
    /\ ~(req.attempt < req.retries)
    /\ req' = Finished(req, "Exception", None)
    /\ UNCHANGED <<clock, cache, threads, seen>>
    /\ UNCHANGED <<regVars, optVars, schedVars>>

Tick ==
    /\ clock + ClockStep <= MaxClock
    /\ clock' = clock + ClockStep
    /\ UNCHANGED <<cache, req, threads, seen>>
    /\ UNCHANGED <<regVars, optVars, schedVars>>

RegInit ==
    /\ assets = << >>
    /\ jobs = << >>
    /\ now = 0
    /\ last = Outcome("init", << >>, "ok", {}, None)

OptIdle ==
    /\ forecast = << >>
    /\ query = None
    /\ windows = << >>

\* The registry through its lifecycle operations: a few well-formed
\* submissions, every status, every schedule of the grid.
LifecycleSubmissions ==
    {d \in SubmissionInputs :
        /\ d.asset_id = "a1"
        /\ d.duration_hours = 1
        /\ d.latest_finish = MaxTime
        /\ d.allowed_regions = {"london"}}

NetIdle ==
    /\ clock = 0
    /\ cache = << >>
    /\ req = IdleReq

ConIdle ==
    /\ threads = << >>
    /\ seen = None

\* No batch under way, an empty audit log, no slot published.
IdleBatch == [pc |-> "idle", queue |-> << >>, order |-> << >>, results |-> << >>]

SchedIdle ==
    /\ batch = IdleBatch
    /\ log = << >>
    /\ slots = << >>

ExtIdle == NetIdle /\ ConIdle /\ SchedIdle

Init == RegInit /\ OptIdle /\ ExtIdle

Next ==
    \/ \E a \in AssetInputs : RegisterAsset(a)
    \/ \E d \in LifecycleSubmissions : \E u \in UuidChoices(d) : SubmitJob(d, u)
    \/ \E j \in JobIds, s \in JobStatus : UpdateJobStatus(j, s)
    \/ \E j \in JobIds, s \in ScheduleInputs : AttachSchedule(j, s)
    \/ \E j \in JobIds : DeleteJob(j)

Spec == Init /\ [][Next]_vars

\* The registry with its read operations between the lifecycle operations.
ReadNext ==
    \/ Next
    \/ \E j \in JobIds : GetJob(j)
    \/ \E a \in AssetIds : GetAsset(a)
    \/ \E st \in {None, Some(PENDING), Some(SCHEDULED)}, r \in {None, Some("scotland")} :
          ListJobs(st, r)
    \/ \E r \in {None, Some("scotland")} : ListAssets(r)
    \/ GetJobStatistics
    \/ GetFlexibilitySummary

ReadSpec == Init /\ [][ReadNext]_vars

\* Two writers and a reader on one stored PENDING job.
PendingJob ==
    calculate_max_deferral(
        NewJob("j1", [asset_id |-> "a1", job_id |-> Some("j1"), duration_hours |-> 1,
                      earliest_start |-> 0, latest_finish |-> MaxTime,
                      allowed_regions |-> {"london"}, estimated_power_kw |-> 1]))

ConcInit ==
    /\ assets = [a \in {"a1"} |-> [asset_id |-> "a1", region |-> "london"]]
    /\ now = 0
    /\ jobs = [j \in {"j1"} |-> PendingJob]
    /\ last = Outcome("init", << >>, "ok", {}, None)
    /\ OptIdle
    /\ NetIdle
    /\ SchedIdle
    /\ threads = [t \in Writers |-> IdleThread]
    /\ seen = None

ConcNext ==
    \/ \E t \in Writers, j \in JobIds, sch \in ConcSchedules : BeginAttach(t, j, sch)
    \/ \E t \in Writers : AttachSetSchedule(t)
    \/ \E t \in Writers : AttachSetStatus(t)
    \/ \E t \in Writers : AttachSetScheduledAt(t)
    \/ \E t \in Writers, j \in JobIds, st \in ConcStatuses : BeginUpdate(t, j, st)
    \/ \E t \in Writers : UpdateSetStatus(t)
    \/ \E t \in Writers : UpdateSetTimestamp(t)
    \/ \E j \in JobIds : ReaderGetJob(j)
    \/ Advance

ConcSpec == ConcInit /\ [][ConcNext]_vars

\* The registry with the scheduler's scheduleJob beside the lifecycle
\* operations.
ScheduleNext ==
    \/ Next
    \/ \E j \in JobIds, up \in Upstreams : ScheduleJob(j, up)

ScheduleSpec == Init /\ [][ScheduleNext]_vars

\* The scheduler on a store of three jobs of differing priority, slack and
\* status, the first of them PENDING: single schedule_job calls, then one
\* batch.
BatchJobIds == {"j1", "j2", "j3"}

\* A job outside PENDING takes no part in scheduling: one such job is enough.
BatchConfigs ==
    {c \in [priority : {"critical", "normal"}, latest_finish : {1, MaxTime},
            status : {PENDING, RUNNING}] :
        c.status = RUNNING => (c.priority = "normal" /\ c.latest_finish = MaxTime)}

BatchJob(job_id, c) ==
    LET submitted ==
            calculate_max_deferral(
                NewJob(job_id, [asset_id |-> "a1", job_id |-> Some(job_id),
                                duration_hours |-> 1, earliest_start |-> 0,
                                latest_finish |-> c.latest_finish,
                                allowed_regions |-> {"london"},
                                estimated_power_kw |-> 1]))
        job == [submitted EXCEPT !.priority = c.priority]
    IN  IF c.status = RUNNING
        THEN [job EXCEPT !.status = RUNNING, !.started_at = Some(now)]
        ELSE job

BatchUpstreams ==
    {None, Some(<< >>), Some(<< ForecastSignal(0, 100, 10) >>)}

BatchInit ==
    /\ assets = [a \in {"a1"} |-> [asset_id |-> "a1", region |-> "london"]]
    /\ now = 0
    /\ \E f \in [BatchJobIds -> BatchConfigs] :
          /\ f["j1"].status = PENDING
          /\ jobs = [j \in BatchJobIds |-> BatchJob(j, f[j])]
    /\ last = Outcome("init", << >>, "ok", {}, None)
    /\ OptIdle
    /\ ExtIdle

BatchNext ==
    \/ /\ batch.pc = "idle"
       /\ \E j \in BatchJobIds, up \in BatchUpstreams : ScheduleJob(j, up)
    \/ \E o \in BatchOrders : BeginBatch(o)
    \/ \E up \in BatchUpstreams : BatchStep(up)
    \/ EndBatch

BatchSpec == BatchInit /\ [][BatchNext]_vars

\* The statistics over stores of up to two jobs of any status, priority and
\* flexibility, scheduled or not, with one update_job_status beside the reader.
StatJobIds == {"j1", "j2"}

StatConfigs ==
    [status : {PENDING, SCHEDULED, COMPLETED}, priority : {"normal", "low"},
     flexibility_type : {DEFERRABLE, FIXED}, scheduled : BOOLEAN]

StatSchedule(job_id) ==
    [region |-> "london", start_time |-> 0, end_time |-> 1,
     carbon_saved_kg |-> IF job_id = "j1" THEN 240 ELSE 120,
     cost_saved_gbp |-> IF job_id = "j1" THEN 40 ELSE 25,
     carbon_reduction_percent |-> IF job_id = "j1" THEN 300 ELSE 100,
     cost_reduction_percent |-> IF job_id = "j1" THEN 100 ELSE 200]

StatJob(job_id, c) ==
    LET submitted ==
            calculate_max_deferral(
                NewJob(job_id, [asset_id |-> "a1", job_id |-> Some(job_id),
                                duration_hours |-> 1, earliest_start |-> 0,
                                latest_finish |-> MaxTime,
                                allowed_regions |-> {"london"},
                                estimated_power_kw |-> 1,
                                flexibility_type |-> c.flexibility_type,
                                priority |-> c.priority]))
    IN  [submitted EXCEPT !.status = c.status,
                          !.schedule = IF c.scheduled THEN Some(StatSchedule(job_id))
                                       ELSE None]

StatsInit ==
    /\ assets = [a \in {"a1"} |-> [asset_id |-> "a1", region |-> "london"]]
    /\ now = 0
    /\ \E ids \in SUBSET StatJobIds : \E f \in [ids -> StatConfigs] :
          jobs = [j \in ids |-> StatJob(j, f[j])]
    /\ last = Outcome("init", << >>, "ok", {}, None)
    /\ OptIdle
    /\ NetIdle
    /\ SchedIdle
    /\ threads = [t \in {"w1"} |-> IdleThread]
    /\ seen = None

StatsNext ==
    \/ StatBegin
    \/ StatCount
    \/ StatReturn
    \/ /\ last.op = "init"
       /\ seen = None
       /\ GetFlexibilitySummary
    \/ \E j \in StatJobIds : BeginUpdate("w1", j, RUNNING)
    \/ UpdateSetStatus("w1")
    \/ UpdateSetTimestamp("w1")

StatsSpec == StatsInit /\ [][StatsNext]_vars

\* Asset registration with the power fields: kW, any sign, min_power_kw
\* given or left out.
AssetData ==
    [asset_id : AssetIds, region : {"london"}, max_power_kw : {0 - 5, 0, 10},
     min_power_kw : {None, Some(0 - 1), Some(0), Some(5), Some(20)}]

AssetNext == \E data \in AssetData : CreateAsset(data)

AssetSpec == Init /\ [][AssetNext]_vars

\* The marketplace on a store of two jobs: searches, confirmations, and jobs
\* leaving PENDING between them.
SlotJobIds == {"j1", "j2"}

SlotUpstreams == BatchUpstreams \cup {Some(<< ForecastSignal(1, 100, 10) >>)}

SlotInit ==
    /\ assets = [a \in {"a1"} |-> [asset_id |-> "a1", region |-> "london"]]
    /\ now = 0
    /\ \E f \in [SlotJobIds -> {c \in BatchConfigs : c.priority = "normal"}] :
          jobs = [j \in SlotJobIds |-> BatchJob(j, f[j])]
    /\ last = Outcome("init", << >>, "ok", {}, None)
    /\ OptIdle
    /\ ExtIdle

SlotNext ==
    \/ \E r \in {None, Some("scotland")}, up \in SlotUpstreams :
          SearchFlexibilitySlots(r, up)
    \/ \E j \in SlotJobIds, k \in SlotJobIds, up \in SlotUpstreams :
          ConfirmSlot(SlotIdOf(j), k, up)
    \/ \E j \in SlotJobIds, st \in {RUNNING, CANCELLED} : UpdateJobStatus(j, st)

SlotSpec == SlotInit /\ [][SlotNext]_vars

\* The registry through its lifecycle operations with time passing between
\* them.
TimeNext ==
    \/ Next
    \/ Advance

TimeSpec == Init /\ [][TimeNext]_vars

\* The registry through submission: every submission of the grid, against a
\* store whose job may have started or completed.
SubmitNext ==
    \/ \E a \in AssetInputs : RegisterAsset(a)
    \/ \E d \in SubmissionInputs : \E u \in UuidChoices(d) : SubmitJob(d, u)
    \/ \E j \in JobIds, s \in {RUNNING, COMPLETED} : UpdateJobStatus(j, s)
    \/ \E j \in JobIds : DeleteJob(j)

SubmitSpec == Init /\ [][SubmitNext]_vars

\* The Window Optimizer as a function of its inputs: every forecast of at
\* most MaxSignals signals, then one call of find_optimal_windows.
OptInit ==
    /\ RegInit
    /\ forecast \in ForecastInputs
    /\ query = None
    /\ windows = << >>
    /\ ExtIdle

OptNext == \E q \in QueryInputs : FindOptimalWindows(q)

OptSpec == OptInit /\ [][OptNext]_vars

\* The Grid Signal Aggregator as a function of what the upstream returns:
\* one call of get_current_grid_signal or of get_forecast_signals, for every
\* upstream payload of the input sets.
SignalNext ==
    /\ last.op = "init"
    /\ \/ \E in \in CurrentInputs : GetCurrentGridSignal(in)
       \/ \E cf \in CarbonForecasts, pf \in PriceForecasts : GetForecastSignals(cf, pf)

SignalSpec == Init /\ [][SignalNext]_vars

\* compare_regions as a function of its arguments and of what the forecast
\* of each region yields: a failure, no period, or periods at the first
\* hours of the grid.
CompareForecasts ==
    {None, Some(<< >>), Some(<< ForecastSignal(0, 100, 10) >>),
     Some(<< ForecastSignal(1, 300, 13) >>),
     Some(<< ForecastSignal(0, 100, 10), ForecastSignal(1, 300, 13) >>)}

CompareNext ==
    /\ last.op = "init"
    /\ \E regions \in SeqsUpTo(Regions, 2), start_time \in Times,
          duration_hours \in 1..MaxDur, upstream \in [Regions -> CompareForecasts] :
          CompareRegions(regions, start_time, duration_hours, upstream)

CompareSpec == Init /\ [][CompareNext]_vars

\* get_forecast_signals over the horizon: the periods the upstream lists, in
\* and out of order, and horizons that cut the list or leave it whole.
HorizonPeriod(t) == [from |-> t, forecast |-> 100]

HorizonData ==
    {<< >>, << HorizonPeriod(0) >>, << HorizonPeriod(1) >>, << HorizonPeriod(2) >>,
     << HorizonPeriod(0), HorizonPeriod(1) >>, << HorizonPeriod(1), HorizonPeriod(2) >>,
     << HorizonPeriod(0), HorizonPeriod(1), HorizonPeriod(2) >>,
     << HorizonPeriod(1), HorizonPeriod(0) >>, << HorizonPeriod(0), HorizonPeriod(0) >>}

HorizonPrices ==
    {<< >>, << [timestamp |-> 0, price_per_kwh |-> 13] >>,
     << [timestamp |-> 1, price_per_kwh |-> 10] >>}

HorizonNext ==
    /\ last.op = "init"
    /\ \E region \in Regions, hours_ahead \in 0..2, data \in HorizonData,
          price_forecast \in HorizonPrices :
          GetForecastSignalsFor(region, hours_ahead, data, price_forecast)

HorizonSpec == Init /\ [][HorizonNext]_vars

\* The outbound call wrapper alone: bare requests with every retry budget up
\* to the default, against every sequence of upstream outcomes.
RetryInputs == 0..(DefaultRetries + 1)

RetryNext ==
    \/ \E e \in {"/intensity", "/regional"}, n \in RetryInputs : MakeRequest(e, n)
    \/ \E o \in UpstreamOutcomes : Attempt(o)
    \/ Sleep
    \/ Exhausted

RetrySpec == Init /\ [][RetryNext]_vars

\* A request in flight keeps running: the thread is scheduled, session.get
\* returns or times out, and time.sleep returns.
RetryLive ==
    /\ RetrySpec
    /\ WF_vars(\E o \in UpstreamOutcomes : Attempt(o))
    /\ WF_vars(Sleep)
    /\ WF_vars(Exhausted)

\* The cached operations of the carbon client over time.
CacheNext ==
    \/ \E c \in CachedCalls : CachedCall(c.op, c.args)
    \/ \E o \in UpstreamOutcomes : Attempt(o)
    \/ Sleep
    \/ Exhausted
    \/ Tick

CacheSpec == Init /\ [][CacheNext]_vars

\* ===================================================================== claims
ValidationErrors == {"ValidationError", "InvalidWindow"}

WindowOf(d) == d.latest_finish - d.earliest_start

\* C1: every submission whose duration_hours exceeds latest_finish -
\* earliest_start fails with a validation error, and the job store and the
\* asset store are left as they were: no Job is created.
C1_OversizedDurationRejected ==
    [][(/\ last'.op = "submit_job"
        /\ last'.arg.submission.duration_hours > WindowOf(last'.arg.submission))
         => /\ last'.result \in ValidationErrors
            /\ jobs' = jobs
            /\ assets' = assets]_vars

\* C1 witness: with a job in the store, a submission whose window is shorter
\* than its duration was refused.
C1_Witness ==
    /\ last.op = "submit_job"
    /\ last.arg.submission.duration_hours > WindowOf(last.arg.submission)
    /\ last.result = "ValidationError"
    /\ ErrTooSmall \in last.detail
    /\ jobs # << >>

\* The arguments are a JobSubmission: pydantic accepted them.
IsJobSubmission(d) == JobSubmissionErrors(d) = {}

\* C2 (as amended): a JobSubmission whose asset_id is not registered fails
\* with AssetNotFound and the job store and the asset store are unchanged:
\* no Job is created, and a Job with the submission's id is stored afterwards
\* only if it was stored before the call.
C2_UnknownAssetRejected ==
    [][(/\ last'.op = "submit_job"
        /\ IsJobSubmission(last'.arg.submission)
        /\ last'.arg.submission.asset_id \notin DOMAIN assets)
         => /\ last'.result = "AssetNotFound"
            /\ jobs' = jobs
            /\ assets' = assets
            /\ (HasJobId(last'.arg.submission)
                  /\ last'.arg.submission.job_id[1] \in DOMAIN jobs'
                => last'.arg.submission.job_id[1] \in DOMAIN jobs)]_vars

\* C2 witness: a submission naming an unregistered asset and the id of a job
\* already stored was refused with AssetNotFound.
C2_Witness ==
    /\ last.op = "submit_job"
    /\ last.result = "AssetNotFound"
    /\ last.arg.submission.asset_id \notin DOMAIN assets
    /\ HasJobId(last.arg.submission)
    /\ last.arg.submission.job_id[1] \in DOMAIN jobs

\* C2 (as stated): a submission whose asset_id is not registered fails with
\* AssetNotFound, the job store is unchanged and no Job with the submission's
\* id exists afterwards.
C2_Original ==
    [][(/\ last'.op = "submit_job"
        /\ IsJobSubmission(last'.arg.submission)
        /\ last'.arg.submission.asset_id \notin DOMAIN assets)
         => /\ last'.result = "AssetNotFound"
            /\ jobs' = jobs
            /\ (HasJobId(last'.arg.submission)
                => last'.arg.submission.job_id[1] \notin DOMAIN jobs')]_vars

MaxDeferralOf(job) ==
    (job.latest_finish - job.earliest_start) - job.duration_hours

\* C3: every stored Job has max_deferral_hours = (latest_finish -
\* earliest_start) - duration_hours, which is >= 0; and a well-formed
\* submission for a registered asset whose window is at least its duration
\* (a window equal to the duration and a window under 1.5 x the duration
\* included) is accepted and stored as PENDING.
C3_MaxDeferralAndAcceptance ==
    [][/\ \A j \in DOMAIN jobs' :
             /\ jobs'[j].max_deferral_hours = Some(MaxDeferralOf(jobs'[j]))
             /\ jobs'[j].max_deferral_hours[1] >= 0
       /\ (/\ last'.op = "submit_job"
           /\ last'.arg.submission.asset_id \in DOMAIN assets
           /\ last'.arg.submission.duration_hours > 0
           /\ Cardinality(last'.arg.submission.allowed_regions) >= 1
           /\ last'.arg.submission.estimated_power_kw > 0
           /\ WindowOf(last'.arg.submission) >= last'.arg.submission.duration_hours)
            => /\ last'.result = "ok"
               /\ last'.job_id # None
               /\ last'.job_id[1] \in DOMAIN jobs'
               /\ jobs'[last'.job_id[1]].status = PENDING
               /\ jobs'[last'.job_id[1]].duration_hours
                     = last'.arg.submission.duration_hours
               /\ jobs'[last'.job_id[1]].earliest_start
                     = last'.arg.submission.earliest_start
               /\ jobs'[last'.job_id[1]].latest_finish
                     = last'.arg.submission.latest_finish]_vars

\* C3 witness: a submission whose window equals its duration (so is under
\* 1.5 x the duration) was accepted and stored as PENDING with no slack.
C3_Witness ==
    /\ last.op = "submit_job"
    /\ last.result = "ok"
    /\ WindowOf(last.arg.submission) = last.arg.submission.duration_hours
    /\ TightDeadline(last.arg.submission)
    /\ jobs[last.job_id[1]].status = PENDING
    /\ jobs[last.job_id[1]].max_deferral_hours = Some(0)

LifecycleEdges ==
    {<<PENDING, SCHEDULED>>, <<SCHEDULED, RUNNING>>, <<RUNNING, COMPLETED>>,
     <<RUNNING, FAILED>>, <<RUNNING, PAUSED>>, <<PAUSED, RUNNING>>,
     <<PENDING, CANCELLED>>, <<SCHEDULED, CANCELLED>>, <<RUNNING, CANCELLED>>}

TerminalStatuses == {COMPLETED, FAILED, CANCELLED}

\* C4: every change of a Job's status made by a registry operation follows
\* one of the lifecycle edges.
C4_StatusChangesFollowLifecycle ==
    [][\A j \in DOMAIN jobs \cap DOMAIN jobs' :
          jobs'[j].status # jobs[j].status
            => <<jobs[j].status, jobs'[j].status>> \in LifecycleEdges]_vars

\* C5: a Job whose status is COMPLETED, FAILED or CANCELLED keeps that status
\* under every later operation, and a Job that has left PENDING (the status
\* every Job starts in) never has status PENDING again. This is the part of
\* the claim that one step decides; the claim as a whole implies it.
C5_NoReversal ==
    [][\A j \in DOMAIN jobs \cap DOMAIN jobs' :
          /\ jobs[j].status \in TerminalStatuses
               => jobs'[j].status = jobs[j].status
          /\ jobs[j].status # PENDING => jobs'[j].status # PENDING]_vars

\* C6: attach_schedule on a Job whose status is not PENDING is rejected and
\* leaves the Job's schedule, status and scheduled_at unchanged.
C6_AttachOnlyWhilePending ==
    [][(/\ last'.op = "attach_schedule"
        /\ last'.arg.job_id \in DOMAIN jobs
        /\ jobs[last'.arg.job_id].status # PENDING)
         => /\ last'.result # "ok"
            /\ last'.arg.job_id \in DOMAIN jobs'
            /\ jobs'[last'.arg.job_id].schedule = jobs[last'.arg.job_id].schedule
            /\ jobs'[last'.arg.job_id].status = jobs[last'.arg.job_id].status
            /\ jobs'[last'.arg.job_id].scheduled_at
                  = jobs[last'.arg.job_id].scheduled_at]_vars

\* C7: every Job with an attached Schedule has schedule.start_time >=
\* earliest_start, schedule.end_time <= latest_finish, schedule.end_time -
\* schedule.start_time = duration_hours and schedule.region in
\* allowed_regions.
C7_ScheduleWithinJobWindow ==
    \A j \in DOMAIN jobs :
        jobs[j].schedule # None =>
            LET job == jobs[j]
                schedule == jobs[j].schedule[1]
            IN  /\ schedule.start_time >= job.earliest_start
                /\ schedule.end_time <= job.latest_finish
                /\ schedule.end_time - schedule.start_time = job.duration_hours
                /\ schedule.region \in job.allowed_regions

\* C8: with a carbon_cap >= 0 supplied, no returned candidate has an averaged
\* carbon intensity above it; with a max_price >= 0 supplied, none has an
\* averaged price above it.
C8_CapsRespected ==
    query # None =>
        \A i \in DOMAIN windows :
            /\ (query[1].carbon_cap # None /\ query[1].carbon_cap[1] >= 0)
                 => windows[i].avg_carbon <= query[1].carbon_cap[1] * MeanScale
            /\ (query[1].max_price # None /\ query[1].max_price[1] >= 0)
                 => windows[i].avg_price <= query[1].max_price[1] * MeanScale

\* C9: every returned candidate starts at the timestamp t of a forecast
\* signal with window_start <= t and t + duration <= window_end.
C9_CandidatesFitWindow ==
    query # None =>
        \A i \in DOMAIN windows :
            /\ \E k \in DOMAIN forecast : forecast[k].timestamp = windows[i].start
            /\ query[1].window_start <= windows[i].start
            /\ windows[i].start + query[1].duration_hours <= query[1].window_end

\* C9 witness: a call returned a candidate while another signal inside the
\* window was left out because the job would end after window_end.
C9_Witness ==
    /\ query # None
    /\ windows # << >>
    /\ \E k \in DOMAIN forecast :
          /\ query[1].window_start <= forecast[k].timestamp
          /\ forecast[k].timestamp <= query[1].window_end
          /\ forecast[k].timestamp + query[1].duration_hours > query[1].window_end

\* The candidates of the last call in the order the loop appended them.
AppendedCandidates ==
    LET relevant_signals ==
            RelevantSignals(forecast, query[1].window_start, query[1].window_end)
    IN  CandidateStarts(relevant_signals, relevant_signals, query[1])

WithScore(seq, score) == SelectSeq(seq, LAMBDA c : c.score = score)

\* C10: the returned sequence is in non-decreasing order of score, and the
\* candidates of equal score are in the order the forecast yielded them.
C10_SortedStable ==
    query # None =>
        /\ \A i \in DOMAIN windows : \A k \in DOMAIN windows :
              i < k => windows[i].score <= windows[k].score
        /\ \A i \in DOMAIN windows :
              WithScore(windows, windows[i].score)
                 = WithScore(AppendedCandidates, windows[i].score)

\* C10 witness: two different candidates of equal score were returned, the
\* one the forecast yielded first ahead of the other.
C10_Witness ==
    /\ query # None
    /\ Len(windows) >= 2
    /\ windows[1].score = windows[2].score
    /\ windows[1].start < windows[2].start
    /\ windows[1] # windows[2]

\* The carbon payload carries a usable reading: data[0].intensity is an
\* object whose `actual` (or, without one, `forecast`) is a number.
WellFormedCarbon(carbon_data) ==
    /\ IsDict(carbon_data)
    /\ "data" \in DOMAIN carbon_data.dict
    /\ IsList(carbon_data.dict.data)
    /\ carbon_data.dict.data.list # << >>
    /\ IsDict(carbon_data.dict.data.list[1])
    /\ "intensity" \in DOMAIN carbon_data.dict.data.list[1].dict
    /\ LET intensity == carbon_data.dict.data.list[1].dict.intensity
       IN  /\ IsDict(intensity)
           /\ \/ "actual" \in DOMAIN intensity.dict /\ IsNum(intensity.dict.actual)
              \/ /\ "actual" \notin DOMAIN intensity.dict
                 /\ "forecast" \in DOMAIN intensity.dict
                 /\ IsNum(intensity.dict.forecast)

\* C11: for a malformed or empty carbon payload, get_current_grid_signal
\* does not raise and returns a GridSignal whose carbon intensity is 250.
C11_MalformedCarbonFallsBack ==
    (/\ last.op = "get_current_grid_signal"
     /\ ~WellFormedCarbon(last.arg.carbon_data))
      => /\ last.result = "ok"
         /\ last.detail.carbon_intensity_g_per_kwh = DefaultCarbon

\* C12: every GridSignal produced by get_current_grid_signal or
\* get_forecast_signals has price_per_mwh = price_per_kwh x 1000 and a
\* stress_level in [0,1].
C12_PriceAndStressConsistent ==
    /\ (last.op = "get_current_grid_signal" /\ last.result = "ok")
         => /\ last.detail.price_per_mwh = last.detail.price_per_kwh * 1000
            /\ 0 <= last.detail.stress_level
            /\ last.detail.stress_level <= StressUnit
    /\ \A i \in DOMAIN forecast :
          /\ forecast[i].price_per_mwh = forecast[i].price_per_kwh * 1000
          /\ 0 <= forecast[i].stress_level
          /\ forecast[i].stress_level <= StressUnit

\* C12 witness: a current signal at the stress ceiling (high carbon, peak
\* demand, frequency off by 0.3 Hz) with a negative price.
C12_Witness ==
    /\ last.op = "get_current_grid_signal"
    /\ last.result = "ok"
    /\ last.detail.stress_level = StressUnit
    /\ last.detail.price_per_kwh < 0

RetryableOutcomes == {RATE_LIMITED, SERVER_ERROR, TIMEOUT}
RequestErrors == {"HTTPError", "Timeout", "RequestException", "Exception"}

InFlight == req.pc \in {"request", "sleep"}

\* C13: _make_request makes at most `retries` upstream attempts and always
\* ends; it returns the body of the first attempt that succeeds, and when no
\* attempt succeeds it ends in an error: it never returns without a response.
C13_RequestTerminates ==
    /\ [](req.calls <= req.retries)
    /\ [](req.pc = "done" =>
            \/ /\ req.result = "response"
               /\ req.data # None
               /\ req.outcomes[req.calls] = OK
               /\ \A i \in 1..(req.calls - 1) : req.outcomes[i] # OK
            \/ /\ req.result \in RequestErrors
               /\ req.data = None
               /\ \A i \in 1..req.calls : req.outcomes[i] # OK)
    /\ [](InFlight => <>(req.pc = "done"))

\* C13 witness: the default budget of three attempts was used up, the third
\* one succeeding.
C13_Witness ==
    /\ req.pc = "done"
    /\ req.retries = DefaultRetries
    /\ req.outcomes = << RATE_LIMITED, TIMEOUT, OK >>
    /\ req.result = "response"

\* An attempt was made in this step and ended in outcome o.
AttemptEnded(o) ==
    /\ req.pc = "request"
    /\ req'.calls = req.calls + 1
    /\ req'.outcomes[req'.calls] = o

\* C14: an attempt that ends in a ClientError ends the call with that error
\* at once: no sleep is taken for it and no further attempt is made, so a
\* ClientError on the first attempt surfaces after exactly one attempt.
C14_ClientErrorImmediate ==
    /\ [][AttemptEnded(CLIENT_ERROR)
            => /\ req'.pc = "done"
               /\ req'.result = "HTTPError"
               /\ req'.waits = req.waits]_vars
    /\ [][(req.pc = "done" /\ req.calls > 0 /\ req.outcomes[req.calls] = CLIENT_ERROR)
            => (req'.op = req.op /\ req'.args = req.args => req'.calls <= req.calls)]_vars
    /\ []((req.pc = "done" /\ req.calls > 0 /\ req.outcomes[1] = CLIENT_ERROR)
            => (req.calls = 1 /\ req.waits = << >>))

\* C14 witness: a ClientError on the first attempt of a call with the
\* default budget ended the call.
C14_Witness ==
    /\ req.pc = "done"
    /\ req.retries = DefaultRetries
    /\ req.outcomes = << CLIENT_ERROR >>
    /\ req.result = "HTTPError"
    /\ req.waits = << >>

\* C15: a RateLimited, ServerError or Timeout outcome on attempt k that is
\* not the last attempt is followed by a wait of 2^k seconds and then by
\* another attempt; when every attempt ends in one of these outcomes the
\* caller receives an error and no value.
C15_BackoffThenRetry ==
    /\ [][(\E o \in RetryableOutcomes : AttemptEnded(o)) /\ req.attempt < req.retries - 1
            => req'.pc = "sleep" /\ req'.attempt = req.attempt]_vars
    /\ [][(req.pc = "sleep" /\ req.attempt < req.retries - 1)
            => /\ req'.waits = Append(req.waits, 2 ^ req.attempt)
               /\ req'.pc = "request"
               /\ req'.attempt = req.attempt + 1
               /\ req'.calls = req.calls]_vars
    /\ [][(req.pc = "request" /\ req.attempt < req.retries)
            => req'.calls = req.calls + 1]_vars
    /\ []((/\ req.pc = "done"
           /\ req.calls = req.retries
           /\ \A i \in 1..req.calls : req.outcomes[i] \in RetryableOutcomes)
            => (req.result \in RequestErrors /\ req.data = None))

\* C15 witness: three attempts ended in the three outcomes, with waits of 1 s
\* and 2 s between them, and the caller got the error of the last one.
C15_Witness ==
    /\ req.pc = "done"
    /\ req.outcomes = << RATE_LIMITED, SERVER_ERROR, TIMEOUT >>
    /\ req.waits = << 1, 2 >>
    /\ req.result = "Timeout"

\* A call of a cached operation ended in this step without an upstream attempt.
ServedFromCache ==
    /\ req.pc \in {"idle", "done"}
    /\ req'.pc = "done"
    /\ req' # req

\* A call of a cached operation missed the cache and entered the upstream
\* request in this step.
EnteredUpstream ==
    /\ req.pc \in {"idle", "done"}
    /\ req'.pc = "request"

\* The call in flight ended in this step.
CallEnded == InFlight /\ req'.pc = "done"

\* The entry the call in flight would be served from: same operation, same
\* full argument set, stored less than the operation's TTL ago.
FreshEntry(op, args) ==
    /\ << op, args >> \in DOMAIN cache
    /\ clock - cache[<< op, args >>].time
         < (IF op = "get_intensity_forecast" THEN 3600 ELSE 1800)

\* What the operation returns when the upstream answers now.
FreshResult(op, args) == FuncResult(op, args, Response(Endpoint(op, args), clock))

\* The result was fetched for this operation and this argument set.
FetchedFor(result, op, args) ==
    /\ result.data.endpoint = Endpoint(op, args)
    /\ op = "get_intensity_forecast" => result.periods = args[1] * 2

C16_HitOnlyWhenFresh ==
    /\ [][ServedFromCache
            => /\ FreshEntry(req'.op, req'.args)
               /\ req'.data = Some(cache[<< req'.op, req'.args >>].data)
               /\ req'.calls = 0
               /\ cache' = cache]_vars
    /\ [][EnteredUpstream => ~FreshEntry(req'.op, req'.args)]_vars
    /\ [][(req.pc \in {"idle", "done"} /\ req' # req /\ ~FreshEntry(req'.op, req'.args))
            => EnteredUpstream]_vars
    /\ [](req.pc = "done" /\ req.result = "response"
            => FetchedFor(req.data[1], req.op, req.args))
    /\ [](req.pc = "done" /\ req.retries > 0 => req.calls >= 1)

\* C16 as stated: a hit only on a fresh entry of the same operation and
\* argument set; in every other case the upstream is called and the entry is
\* replaced by the fresh result with the current time; never an entry of
\* another argument set.
C16_Original ==
    /\ C16_HitOnlyWhenFresh
    /\ [][CallEnded
            => cache' = Put(cache, << req.op, req.args >>,
                            [data |-> FreshResult(req.op, req.args), time |-> clock])]_vars

\* C16 amended: as stated, except that the entry is replaced only when the
\* upstream returns a result; when the upstream fails the caller gets the
\* error and the cache is left as it was.
C16_CacheContract ==
    /\ C16_HitOnlyWhenFresh
    /\ [][CallEnded /\ req'.result = "response"
            => /\ cache' = Put(cache, << req.op, req.args >>,
                               [data |-> FreshResult(req.op, req.args), time |-> clock])
               /\ req'.data = Some(FreshResult(req.op, req.args))]_vars
    /\ [][CallEnded /\ req'.result # "response"
            => /\ cache' = cache
               /\ req'.result \in RequestErrors
               /\ req'.data = None]_vars

\* C16 witness: a call for scotland is served from its own entry, stored one
\* clock step earlier, while an entry for london is in the cache too.
C16_Witness ==
    /\ req.pc = "done"
    /\ req.op = "get_current_intensity"
    /\ req.args = << "scotland" >>
    /\ req.calls = 0
    /\ req.result = "response"
    /\ << "get_current_intensity", << "london" >> >> \in DOMAIN cache
    /\ clock - cache[<< "get_current_intensity", << "scotland" >> >>].time = ClockStep

ReadOps ==
    {"get_job", "get_asset", "list_jobs", "list_assets", "get_job_statistics",
     "get_flexibility_summary"}

\* C17: get_job, get_asset, list_jobs, list_assets, get_job_statistics and
\* get_flexibility_summary leave the job store and the asset store as they
\* were; get_job returns the stored value, so two get_job calls on one id
\* with only reads between them return equal values.
C17_ReadsLeaveStores ==
    /\ [][last'.op \in ReadOps /\ last' # last
            => jobs' = jobs /\ assets' = assets]_vars
    /\ [](last.op = "get_job"
            => last.detail = IF last.arg.job_id \in DOMAIN jobs
                             THEN << jobs[last.arg.job_id] >> ELSE << >>)
    /\ [][last.op = "get_job" /\ last'.op = "get_job" /\ last'.arg = last.arg
            => last'.detail = last.detail]_vars

\* C17 witness: get_job returned a scheduled job that is still in the store.
C17_Witness ==
    /\ last.op = "get_job"
    /\ last.detail # << >>
    /\ last.detail[1].status = SCHEDULED
    /\ last.detail[1].schedule # None
    /\ "j1" \in DOMAIN jobs

\* The timestamp a status sets is there.
TimestampSet(job) ==
    /\ job.status = SCHEDULED => job.scheduled_at # None
    /\ job.status = RUNNING => job.started_at # None
    /\ job.status \in TerminalStatuses => job.completed_at # None

\* C18: a reader running beside attach_schedule or update_job_status never
\* gets a partially updated Job: not one with a schedule while its status is
\* PENDING, and not one whose status is SCHEDULED, RUNNING or terminal while
\* the timestamp of that status is unset.
C18_NoPartialJobSeen ==
    seen # None =>
        /\ seen[1].schedule # None => seen[1].status # PENDING
        /\ TimestampSet(seen[1])

AttachDone(t) == threads[t].pc = "done" /\ threads[t].op = "attach_schedule"

\* C19: when two attach_schedule calls have run on the same PENDING job,
\* exactly one has attached and the other was rejected, and the job's
\* schedule, status and scheduled_at all come from the call that attached.
C19_AttachSerialized ==
    (/\ AttachDone("w1") /\ AttachDone("w2")
     /\ threads["w1"].job_id = threads["w2"].job_id)
        => \E t \in Writers :
              /\ threads[t].result = "ok"
              /\ \A u \in Writers \ {t} : threads[u].result # "ok"
              /\ jobs[threads[t].job_id].schedule = threads[t].schedule
              /\ jobs[threads[t].job_id].status = SCHEDULED
              /\ jobs[threads[t].job_id].scheduled_at = threads[t].wrote_at

\* C20: schedule_job on a stored job whose status is not PENDING fails with
\* InvalidState and leaves the job (status, schedule, timestamps) and the
\* rest of the store as they were.
C20_ScheduleJobNeedsPending ==
    [][(/\ last'.op = "schedule_job"
        /\ last'.arg.job_id \in DOMAIN jobs
        /\ jobs[last'.arg.job_id].status # PENDING)
          => /\ last'.result = "InvalidState"
             /\ jobs' = jobs
             /\ assets' = assets]_vars

\* C20 witness: schedule_job was refused on a RUNNING job that carries a
\* schedule and a start time.
C20_Witness ==
    /\ last.op = "schedule_job"
    /\ last.result = "InvalidState"
    /\ "j1" \in DOMAIN jobs
    /\ jobs["j1"].status = RUNNING
    /\ jobs["j1"].schedule # None
    /\ jobs["j1"].started_at # None

\* A single schedule_job call was made in this step (not a pass of the batch).
ScheduleJobStep ==
    /\ batch' = batch
    /\ Len(log') = Len(log) + 1
    /\ last'.op = "schedule_job"

SchedulingFailures == {"NoFeasibleWindow", "UpstreamUnavailable"}

\* C21: when schedule_job fails because the optimiser has no candidate
\* (NoFeasibleWindow) or because the Grid Signal Source is unavailable
\* (UpstreamUnavailable), the Job is still PENDING with no Schedule attached
\* and no Job of the store has changed.
C21_FailedSchedulingLeavesJobs ==
    [][(ScheduleJobStep /\ last'.result \in SchedulingFailures)
          => /\ jobs' = jobs
             /\ jobs'[last'.arg.job_id].status = PENDING
             /\ jobs'[last'.arg.job_id].schedule = None
             /\ jobs'[last'.arg.job_id].scheduled_at = None]_vars

\* C21 witness: schedule_job on j1 found the upstream unavailable after an
\* earlier call had scheduled j2; j1 is PENDING and j2 keeps its Schedule.
C21_Witness ==
    /\ last.op = "schedule_job"
    /\ last.arg.job_id = "j1"
    /\ last.result = "UpstreamUnavailable"
    /\ jobs["j1"].status = PENDING
    /\ jobs["j2"].status = SCHEDULED
    /\ jobs["j2"].schedule # None
    /\ Len(log) = 2

\* The batch made one attempt in this step.
BatchAttempt == Len(batch'.results) = Len(batch.results) + 1

\* The rank of a priority in the order critical, high, normal, low.
RankOf(priority) ==
    IF priority = "critical" THEN 0
    ELSE IF priority = "high" THEN 1
    ELSE IF priority = "normal" THEN 2
    ELSE 3

\* Job a is not to be attempted after job b.
NotAfter(a, b) ==
    \/ RankOf(a.priority) < RankOf(b.priority)
    \/ /\ a.priority = b.priority
       /\ a.max_deferral_hours[1] <= b.max_deferral_hours[1]

\* C22: schedule_all_pending attempts every Job that is PENDING at its start
\* exactly once, by priority (critical, high, normal, low) and within a
\* priority by ascending max_deferral_hours; a failed attempt does not stop
\* the later attempts and changes no other Job; the result reports every Job
\* with its success or failure.
C22_BatchAttemptsAllInOrder ==
    /\ [][(batch.pc = "idle" /\ batch'.pc = "running")
            => /\ {batch'.order[i] : i \in DOMAIN batch'.order}
                    = {j \in DOMAIN jobs : jobs[j].status = PENDING}
               /\ \A i, k \in DOMAIN batch'.order :
                     /\ i # k => batch'.order[i] # batch'.order[k]
                     /\ i < k => NotAfter(jobs[batch'.order[i]], jobs[batch'.order[k]])
               /\ batch'.results = << >>]_vars
    /\ [][BatchAttempt
            => LET n == Len(batch'.results)
                   r == batch'.results[n]
               IN  /\ r.job_id = batch.order[n]
                   /\ batch'.order = batch.order
                   /\ SubSeq(batch'.results, 1, n - 1) = batch.results
                   /\ r.success = (jobs'[r.job_id].status = SCHEDULED)
                   /\ ~r.success => jobs' = jobs
                   /\ \A j \in DOMAIN jobs \ {r.job_id} : jobs'[j] = jobs[j]]_vars
    /\ [][(batch.pc = "running" /\ Len(batch.results) < Len(batch.order))
            => (BatchAttempt /\ batch'.pc = "running")]_vars
    /\ [](batch.pc = "done"
            => /\ Len(batch.results) = Len(batch.order)
               /\ last.op = "schedule_all_pending"
               /\ last.detail = batch.results)

\* C22 witness: a finished batch of three jobs whose first attempt failed and
\* whose later attempts succeeded.
C22_Witness ==
    /\ batch.pc = "done"
    /\ Len(batch.results) = 3
    /\ ~batch.results[1].success
    /\ batch.results[2].success
    /\ batch.results[3].success
    /\ jobs[batch.order[1]].priority = "critical"
    /\ jobs[batch.order[3]].priority = "normal"

\* The search that ended in the current state returned slot sid.
JustReturned(sid) ==
    /\ last.op = "search_flexibility_slots"
    /\ last.result = "ok"
    /\ \E slot \in last.detail : slot.slot_id = sid

\* C23: search_flexibility_slots changes no Job; confirm_slot on a slot the
\* search just returned, with the Job still PENDING and the signals as they
\* were, succeeds and leaves the Job SCHEDULED with the slot's window; a
\* second confirm_slot on that slot fails with SlotExpired and leaves the
\* Job's Schedule as it was.
C23_SearchThenConfirm ==
    /\ [][last'.op = "search_flexibility_slots" => jobs' = jobs]_vars
    /\ [][(/\ last'.op = "confirm_slot"
           /\ JustReturned(last'.arg.slot_id)
           /\ last'.arg.job_id = slots[last'.arg.slot_id].job_id
           /\ jobs[last'.arg.job_id].status = PENDING
           /\ last'.arg.upstream = last.arg.upstream)
            => /\ last'.result = "ok"
               /\ jobs'[last'.arg.job_id].status = SCHEDULED
               /\ jobs'[last'.arg.job_id].schedule
                     = Some(slots[last'.arg.slot_id].schedule)
               /\ \A j \in DOMAIN jobs \ {last'.arg.job_id} : jobs'[j] = jobs[j]]_vars
    /\ [][(/\ last.op = "confirm_slot"
           /\ last.result = "ok"
           /\ last'.op = "confirm_slot"
           /\ last'.arg.slot_id = last.arg.slot_id)
            => /\ last'.result \in {"SlotExpired", "NotFound"}
               /\ last'.arg.job_id = last.arg.job_id => last'.result = "SlotExpired"
               /\ jobs' = jobs]_vars

\* C23 witness: the slot of j1 was confirmed and a second confirmation of it
\* was refused; j1 is SCHEDULED with its Schedule.
C23_Witness ==
    /\ last.op = "confirm_slot"
    /\ last.arg.slot_id = SlotIdOf("j1")
    /\ last.arg.job_id = "j1"
    /\ last.result = "SlotExpired"
    /\ SlotIdOf("j1") \in DOMAIN slots
    /\ slots[SlotIdOf("j1")].retired
    /\ jobs["j1"].status = SCHEDULED
    /\ jobs["j1"].schedule = Some(slots[SlotIdOf("j1")].schedule)

\* a is a prefix of b.
IsPrefix(a, b) == Len(a) <= Len(b) /\ SubSeq(b, 1, Len(a)) = a

\* The decision this step made, if it made one: the job and the outcome of a
\* single schedule_job call or of a pass of the batch.
DecisionMade ==
    IF BatchAttempt
    THEN << [job_id |-> batch'.results[Len(batch'.results)].job_id,
             result |-> batch'.results[Len(batch'.results)].result] >>
    ELSE IF last'.op = "schedule_job" /\ batch' = batch /\ log' # log
    THEN << [job_id |-> last'.arg.job_id, result |-> last'.result] >>
    ELSE << >>

\* C24: the audit log only grows at its end: the log before any step is a
\* prefix of the log after it, so no entry is edited or removed; every
\* scheduling decision adds exactly one entry, for its Job, at the end, so the
\* entries of a Job stand in the order of its decisions.
C24_LogAppendOnly ==
    /\ [][IsPrefix(log, log')]_vars
    /\ [][DecisionMade # << >>
            => /\ Len(log') = Len(log) + 1
               /\ log'[Len(log')].job_id = DecisionMade[1].job_id
               /\ log'[Len(log')].decision_type
                     = (IF DecisionMade[1].result = "ok" THEN "SCHEDULE"
                        ELSE IF DecisionMade[1].result = "NoFeasibleWindow" THEN "DEFER"
                        ELSE "REJECT")]_vars
    /\ [][DecisionMade = << >> => log' = log]_vars
    /\ [](\A i, k \in DOMAIN log : i < k => log[i].log_id < log[k].log_id)

\* C24 witness: three decisions in the log, the first and the third for j1
\* (deferred, then scheduled by the batch), one for j2 between them.
C24_Witness ==
    /\ Len(log) = 3
    /\ log[1].job_id = "j1" /\ log[1].decision_type = "DEFER"
    /\ log[2].job_id = "j2"
    /\ log[3].job_id = "j1" /\ log[3].decision_type = "SCHEDULE"
    /\ jobs["j1"].schedule = log[3].schedule

\* C25: once an asset_id is registered, the record stored under it never
\* changes: no operation, register_asset with the same id included, alters or
\* replaces it.
C25_AssetImmutable ==
    [][\A a \in DOMAIN assets : a \in DOMAIN assets' /\ assets'[a] = assets[a]]_vars

\* The fields of a Job other than its status and the three timestamps that
\* update_job_status may set.
SameOtherFields(a, b) ==
    /\ DOMAIN a = DOMAIN b
    /\ \A f \in DOMAIN a \ {"status", "scheduled_at", "started_at", "completed_at"} :
          a[f] = b[f]

\* The timestamp field tied to status st, if any.
TimestampOf(st) ==
    IF st = SCHEDULED THEN << "scheduled_at" >>
    ELSE IF st = RUNNING THEN << "started_at" >>
    ELSE IF st \in {COMPLETED, FAILED, CANCELLED} THEN << "completed_at" >>
    ELSE << >>

\* C26: update_job_status(job_id, s) on a stored Job sets its status to s and
\* sets exactly the timestamp tied to s (none for PAUSED and PENDING) to the
\* current time, leaving the Job's other fields and every other Job as they
\* were; on an unknown job_id it fails with not-found and changes nothing.
C26_UpdateStatusFrame ==
    [][(last'.op = "update_job_status" /\ now' = now)
         => LET j == last'.arg.job_id
                st == last'.arg.new_status
            IN  IF j \in DOMAIN jobs
                THEN /\ last'.result = "ok"
                     /\ DOMAIN jobs' = DOMAIN jobs
                     /\ \A k \in DOMAIN jobs \ {j} : jobs'[k] = jobs[k]
                     /\ jobs'[j].status = st
                     /\ SameOtherFields(jobs[j], jobs'[j])
                     /\ \A f \in {"scheduled_at", "started_at", "completed_at"} :
                           jobs'[j][f] = IF << f >> = TimestampOf(st)
                                         THEN << now >> ELSE jobs[j][f]
                ELSE /\ last'.result = "JobNotFound"
                     /\ jobs' = jobs
                     /\ assets' = assets]_vars

\* C26 witness: a later update to COMPLETED set completed_at alone: the job
\* had been scheduled earlier and was never started.
C26_Witness ==
    /\ last.op = "update_job_status"
    /\ last.arg.new_status = COMPLETED
    /\ last.result = "ok"
    /\ now > 0
    /\ jobs["j1"].status = COMPLETED
    /\ jobs["j1"].completed_at = << now >>
    /\ jobs["j1"].scheduled_at = << 0 >>
    /\ jobs["j1"].started_at = << >>

LifecycleTimestamps == << "submitted_at", "scheduled_at", "started_at", "completed_at" >>

\* C27: each lifecycle timestamp of a stored Job is set at most once: once it
\* has a value, no later operation on the Job (a second update to RUNNING, a
\* second attach_schedule) gives it another.
C27_TimestampsSetOnce ==
    [][last'.op \in {"update_job_status", "attach_schedule"}
         => \A j \in DOMAIN jobs \cap DOMAIN jobs' :
               \A i \in DOMAIN LifecycleTimestamps :
                  jobs[j][LifecycleTimestamps[i]] # None
                     => jobs'[j][LifecycleTimestamps[i]] = jobs[j][LifecycleTimestamps[i]]]_vars

\* C28: in every reachable state the lifecycle timestamps of a Job that are
\* set are ordered submitted_at <= scheduled_at <= started_at <= completed_at.
C28_TimestampsOrdered ==
    \A j \in DOMAIN jobs :
       \A i, k \in DOMAIN LifecycleTimestamps :
          (/\ i < k
           /\ jobs[j][LifecycleTimestamps[i]] # None
           /\ jobs[j][LifecycleTimestamps[k]] # None)
             => jobs[j][LifecycleTimestamps[i]][1] <= jobs[j][LifecycleTimestamps[k]][1]

\* The intensity object of a carbon payload of the expected shape.
HasIntensity(carbon_data) ==
    /\ IsDict(carbon_data)
    /\ "data" \in DOMAIN carbon_data.dict
    /\ IsList(carbon_data.dict.data)
    /\ carbon_data.dict.data.list # << >>
    /\ IsDict(carbon_data.dict.data.list[1])
    /\ "intensity" \in DOMAIN carbon_data.dict.data.list[1].dict
    /\ IsDict(carbon_data.dict.data.list[1].dict.intensity)

IntensityOf(carbon_data) == carbon_data.dict.data.list[1].dict.intensity.dict

HasActual(intensity) == "actual" \in DOMAIN intensity /\ IsNum(intensity.actual)

ForecastOnly(intensity) ==
    /\ "actual" \notin DOMAIN intensity \/ IsNull(intensity.actual)
    /\ "forecast" \in DOMAIN intensity
    /\ IsNum(intensity.forecast)

\* C29: the carbon intensity of the current signal is the payload's actual
\* reading when it has one; with the actual reading absent or null and a
\* forecast reading present it is the forecast reading; it is the default
\* 250 only when neither is usable.
C29_ActualThenForecast ==
    (/\ last.op = "get_current_grid_signal"
     /\ last.result = "ok"
     /\ HasIntensity(last.arg.carbon_data))
      => LET intensity == IntensityOf(last.arg.carbon_data)
         IN  /\ HasActual(intensity)
                  => last.detail.carbon_intensity_g_per_kwh = intensity.actual.num
             /\ ForecastOnly(intensity)
                  => last.detail.carbon_intensity_g_per_kwh = intensity.forecast.num
             /\ last.detail.carbon_intensity_g_per_kwh = DefaultCarbon
                  => ~(HasActual(intensity) \/ ForecastOnly(intensity))

\* A generation mix with entries, each a fuel tag with a percentage.
WellFormedMix(mix) ==
    /\ IsList(mix)
    /\ mix.list # << >>
    /\ \A i \in DOMAIN mix.list :
          /\ IsDict(mix.list[i])
          /\ DOMAIN mix.list[i].dict = {"fuel", "perc"}
          /\ IsStr(mix.list[i].dict.fuel)
          /\ IsNum(mix.list[i].dict.perc)

\* The summed percentages of the renewable fuels of a well-formed mix.
RECURSIVE RenewableShare(_)
RenewableShare(items) ==
    IF items = << >> THEN 0
    ELSE (IF Lower(Head(items).dict.fuel.str) \in RenewableTypes
          THEN Head(items).dict.perc.num ELSE 0) + RenewableShare(Tail(items))

\* C30: the renewable fraction of the current signal is the sum of the
\* percentages of wind, solar, hydro and biomass in the generation mix
\* divided by 100, and 0.3 whenever the mix has no entries or is malformed.
C30_RenewableFraction ==
    (/\ last.op = "get_current_grid_signal"
     /\ WellFormedCarbon(last.arg.carbon_data))
      => /\ last.result = "ok"
         /\ last.detail.renewable_fraction =
               IF WellFormedMix(last.arg.generation_mix.mix)
               THEN RenewableShare(last.arg.generation_mix.mix.list)
               ELSE FallbackRenewable

TieredStress(carbon_intensity, demand_mw, frequency_hz) ==
    LET c == IF carbon_intensity > 400 THEN 5
             ELSE IF carbon_intensity > 300 THEN 3
             ELSE IF carbon_intensity > 200 THEN 1 ELSE 0
        d == IF demand_mw = None THEN 0
             ELSE IF demand_mw[1] > 40000 THEN 3
             ELSE IF demand_mw[1] > 35000 THEN 2
             ELSE IF demand_mw[1] > 30000 THEN 1 ELSE 0
        f == IF frequency_hz = None THEN 0
             ELSE IF Abs(frequency_hz[1] - 5000) > 20 THEN 2
             ELSE IF Abs(frequency_hz[1] - 5000) > 10 THEN 1 ELSE 0
    IN  Min(StressUnit, c + d + f)

PointsIn(t, duration) ==
    SelectSeq(forecast, LAMBDA s : t <= s.timestamp /\ s.timestamp < t + duration)

MeetsCaps(q, points) ==
    /\ q.carbon_cap # None
         => Mean(points, "carbon_intensity_g_per_kwh") <= q.carbon_cap[1] * MeanScale
    /\ q.max_price # None
         => Mean(points, "price_per_kwh") <= q.max_price[1] * MeanScale

RegionPoints(arg, region) ==
    IF arg.upstream[region] = None THEN << >>
    ELSE SelectSeq(arg.upstream[region][1],
                   LAMBDA s : /\ arg.start_time <= s.timestamp
                              /\ s.timestamp < arg.start_time + arg.duration_hours)

C35_ForecastSequence ==
    last.op = "get_forecast_signals" =>
        /\ last.result = "ok"
        /\ Len(forecast) <= 2 * last.arg.hours_ahead
        /\ Len(forecast) = Len(last.arg.carbon_forecast)
        /\ \A i \in DOMAIN forecast :
              /\ forecast[i].timestamp = last.arg.carbon_forecast[i].from
              /\ last.detail[i] = last.arg.region
        /\ \A i, k \in DOMAIN forecast :
              i < k => forecast[i].timestamp < forecast[k].timestamp

\* C36: every price carried by a signal that get_current_grid_signal or
\* get_forecast_signals returns is a price of the upstream price payload;
\* with no upstream price for the moment or the period no price is made up.
C36_PricesFromUpstream ==
    /\ (last.op = "get_current_grid_signal" /\ last.result = "ok") =>
          /\ last.arg.price # None
          /\ last.detail.price_per_kwh = last.arg.price[1]
    /\ last.op = "get_forecast_signals" =>
          \A i \in DOMAIN forecast :
              \E k \in DOMAIN last.arg.price_forecast :
                  /\ Abs(forecast[i].timestamp - last.arg.price_forecast[k].timestamp) * 3600 < 1800
                  /\ forecast[i].price_per_kwh = last.arg.price_forecast[k].price_per_kwh

\* The statuses counted more than the jobs there are, or fewer.
RECURSIVE SumCounts(_, _)
SumCounts(counts, keys) ==
    IF keys = {} THEN 0
    ELSE LET k == CHOOSE x \in keys : TRUE
         IN  counts[k] + SumCounts(counts, keys \ {k})

\* C37: for a non-empty store get_job_statistics reports total_jobs as the
\* number of stored jobs and a count for each of the seven statuses that sum
\* to total_jobs, also with update_job_status running beside it; with no
\* writer at work by_status and by_priority are the counts over the store and
\* the savings totals are the sums over the jobs that have a schedule.
C37_StatisticsCount ==
    (last.op = "get_job_statistics" /\ DOMAIN jobs # {}) =>
        LET stats == last.detail
            stored == {jobs[j] : j \in DOMAIN jobs}
            scheduled == {j \in stored : j.schedule # None}
        IN  /\ stats.total_jobs = Cardinality(DOMAIN jobs)
            /\ DOMAIN stats.by_status = JobStatus
            /\ SumCounts(stats.by_status, JobStatus) = stats.total_jobs
            /\ DOMAIN stats.by_priority = Priority
            /\ SumCounts(stats.by_priority, Priority) = stats.total_jobs
            /\ (\A t \in DOMAIN threads : threads[t].pc = "idle") =>
                  /\ \A st \in JobStatus :
                        stats.by_status[st] = Cardinality({j \in stored : j.status = st})
                  /\ \A p \in Priority :
                        stats.by_priority[p] = Cardinality({j \in stored : j.priority = p})
                  /\ stats.total_carbon_saved_kg = SumJobs(scheduled, "carbon_saved_kg")
                  /\ stats.total_cost_saved_gbp = SumJobs(scheduled, "cost_saved_gbp")

\* The keys the client reads from the two dicts of /api/statistics.
StatisticsFields ==
    {"total_jobs", "by_status", "by_priority", "total_carbon_saved_kg",
     "total_cost_saved_gbp", "avg_carbon_reduction_percent",
     "avg_cost_reduction_percent"}

SummaryFields ==
    {"pending_jobs", "flexible_jobs", "total_deferrable_kwh", "total_flex_hours",
     "avg_deferral_hours"}

FlexiblePending ==
    {j \in DOMAIN jobs : jobs[j].status = PENDING /\ jobs[j].flexibility_type # FIXED}

\* C38: get_job_statistics and get_flexibility_summary return the same
\* fields for every store, the empty one and one without a PENDING job
\* included, among them avg_carbon_reduction_percent,
\* avg_cost_reduction_percent and flexible_jobs; flexible_jobs is the number
\* of PENDING jobs whose flexibility type is not FIXED.
C38_SameFields ==
    /\ last.op = "get_job_statistics" => DOMAIN last.detail = StatisticsFields
    /\ last.op = "get_flexibility_summary" =>
          /\ DOMAIN last.detail = SummaryFields
          /\ (\A t \in DOMAIN threads : threads[t].pc = "idle") =>
                last.detail.flexible_jobs = Cardinality(FlexiblePending)

\* C39: a successful submit_job adds exactly one Job under an id that was
\* not stored and leaves every stored Job as it was; a submission with a
\* stored job_id does not overwrite that Job.
C39_SubmitAddsOneJob ==
    [][(last'.op = "submit_job" /\ last'.result = "ok") =>
          /\ last'.job_id[1] \notin DOMAIN jobs
          /\ DOMAIN jobs' = DOMAIN jobs \cup {last'.job_id[1]}
          /\ \A j \in DOMAIN jobs : jobs'[j] = jobs[j]]_vars

\* C40: every registered asset has max_power_kw >= min_power_kw >= 0;
\* register_asset stores no asset that violates this.
C40_AssetPowerRange ==
    \A a \in DOMAIN assets :
        /\ assets[a].max_power_kw >= assets[a].min_power_kw
        /\ assets[a].min_power_kw >= 0

====
